---- MODULE Spec2Model ----
(***************************************************************************)
(* A model of the AetherMCP core: the provenance ledger                    *)
(* (core/provenance.py), the plan runner of the kernel (core/kernel.py)    *)
(* and the request sender (core/protocol.py).                              *)
(*                                                                         *)
(* Idealisations.  SHA-256 over the canonical JSON of a node is taken to   *)
(* be collision free: a digest is represented by the content it was        *)
(* computed from (with the parent ids sorted, as the code sorts them).     *)
(* uuid4() never repeats: a fresh uuid is the next value of a counter.     *)
(* Data payloads hold JSON values; costs are whole numbers of cost units.  *)
(***************************************************************************)
EXTENDS Integers, Sequences, FiniteSets, TLC

\* ------------------------------------------------------------------ bounds
MaxSessions == 2      \* session ids a caller may name: 1..MaxSessions
MaxClock == 3         \* nodes created in one behaviour of the ledger
MaxParents == 2       \* parent ids a caller passes to record_synthesis
MaxVal == 1           \* payload values a caller passes: 1..MaxVal
MaxSteps == 3         \* steps of a plan
MaxGroup == 1         \* parallel_group values of a plan: None and 1..MaxGroup
MaxCost == 1          \* cost a capability reports for a result: 1..MaxCost
MaxRetry == 2         \* configured max_retries: 0..MaxRetry
MaxBudget == 1        \* budget of an intent: None and 0..MaxBudget
MaxAmount == 2        \* budgets and costs of the governance layer: 0..MaxAmount
MaxAlerts == 2        \* alerts a sentinel keeps before it is asked no more
MaxSentinels == 2     \* sentinels a manager holds at one time
MaxReturned == 3      \* alerts the check_all calls of one behaviour return
MaxHistory == 10      \* decisions recorded before the guardian is asked
MaxProfile == 3       \* decisions recorded while the profile is followed
MaxExecutions == 2    \* execute_async calls made on one kernel
MaxSends == 2         \* requests the steps of one execution post

Sessions == 1..MaxSessions

VARIABLES
    chains,      \* ProvenanceEngine._chains: session id -> ProvenanceChain
    clock,       \* ticks of datetime.utcnow() / uuid4() consumed so far
    last,        \* the last ledger call: its name, arguments and outcome
    doc,         \* the export document a caller holds (or NoDoc)
    tampered,    \* a stored node was modified from outside the engine
    registry,    \* ToolRegistry._servers: the names of the registered servers
    max_retries, \* ProtocolHandler.max_retries
    pc,          \* execute_async: "idle", "running" or "done"
    run,         \* locals of execute_async and _execute_plan
    steps,       \* plan.steps, whose status fields the run assigns
    tasks,       \* one _execute_step coroutine per step
    result,      \* the ExecutionResult execute_async returned
    protocol,    \* ProtocolHandler._client and the clients that are open
    executions,  \* the execute_async calls that share the protocol handler
    cost_sentinel, \* a CostSentinel: enabled, budget, spent, alerts
    checked,     \* the last governance call: its argument and what it returned
    sentinel_manager, \* a SentinelManager: its sentinels and its alerts
    returned,    \* the alerts the check_all calls returned, in call order
    guardian,    \* a CognitiveGuardian: history, profile and alerts
    security_sentinel,   \* a SecuritySentinel: enabled, alerts, violations
    validation_sentinel  \* a ValidationSentinel: enabled, min_confidence, alerts

ledgerVars == <<chains, clock, last, doc, tampered>>
runVars == <<registry, max_retries, pc, run, steps, tasks, result, protocol,
            executions>>
managerVars == <<sentinel_manager, returned>>
sentinelVars == <<cost_sentinel, security_sentinel, validation_sentinel>>
govVars == <<cost_sentinel, checked, sentinel_manager, returned, guardian,
             security_sentinel, validation_sentinel>>
vars == <<chains, clock, last, doc, tampered,
          registry, max_retries, pc, run, steps, tasks, result, protocol,
          executions,
          cost_sentinel, checked, sentinel_manager, returned, guardian,
          security_sentinel, validation_sentinel>>

\* ------------------------------------------------------------- identifiers
\* f"{session_id}_genesis" and f"{session_id}_{uuid4()}": uid 0 is "genesis".
GenesisId(s) == [sid |-> s, uid |-> 0]
NewNodeId(s, u) == [sid |-> s, uid |-> u]
\* A string that is the id of no node of any session.
NoSuchId == [sid |-> 0, uid |-> 0]
\* The absent optional parent id of record_intent.
NoneId == [sid |-> 0, uid |-> 1]

\* The order sorted() puts two id strings in: by session prefix, a uuid
\* (hexadecimal digits) before the word "genesis".
IdLeq(a, b) ==
    \/ a.sid < b.sid
    \/ /\ a.sid = b.sid
       /\ \/ b.uid = 0
          \/ (a.uid # 0 /\ a.uid <= b.uid)

RECURSIVE Insert(_, _)
Insert(x, sq) ==
    IF sq = <<>> THEN <<x>>
    ELSE IF IdLeq(x, Head(sq)) THEN <<x>> \o sq
    ELSE <<Head(sq)>> \o Insert(x, Tail(sq))

RECURSIVE sorted(_)
sorted(sq) == IF sq = <<>> THEN <<>> ELSE Insert(Head(sq), sorted(Tail(sq)))

\* datetime.isoformat() and its inverse (pydantic's datetime parsing).
isoformat(t) == [iso |-> t]
fromisoformat(str) == str.iso

\* ------------------------------------------------------------------ hashing
hash_omits_data(node) ==
    [node_id |-> node.node_id,
     node_type |-> node.node_type,
     timestamp |-> isoformat(node.timestamp),
     data |-> <<>>,
     parent_ids |-> sorted(node.parent_ids)]

_compute_hash(node) ==
    [node_id |-> node.node_id,
     node_type |-> node.node_type,
     timestamp |-> isoformat(node.timestamp),
     data |-> node.data,
     parent_ids |-> sorted(node.parent_ids)]

ProvenanceNode(id, type, ts, data, parents) ==
    LET bare == [node_id |-> id, node_type |-> type, timestamp |-> ts,
                 data |-> data, parent_ids |-> parents]
    IN  [node_id |-> id, node_type |-> type, timestamp |-> ts,
         data |-> data, parent_ids |-> parents, hash |-> _compute_hash(bare)]

ProvenanceChain(s, nodes, root, created) ==
    [session_id |-> s, nodes |-> nodes, root_hash |-> root, created_at |-> created]

Put(chs, s, chain) ==
    [x \in (DOMAIN chs) \cup {s} |-> IF x = s THEN chain ELSE chs[x]]

Drop(chs, s) == [x \in (DOMAIN chs) \ {s} |-> chs[x]]

NodeIds(chain) == {chain.nodes[i].node_id : i \in 1..Len(chain.nodes)}

\* ------------------------------------------------------- ledger operations
None == 0

NoLast == [op |-> "none", sid |-> 0, ok |-> TRUE, raised |-> "",
           node |-> NoSuchId, pre |-> TRUE, referenced |-> FALSE,
           altered |-> FALSE, document |-> "none"]

\* create_session: the genesis node and a chain seeded with it, stored under
\* the session id whether or not that id is already tracked.
create_session(chs, sid, t) ==
    LET genesis == ProvenanceNode(GenesisId(sid), "genesis", t,
                       [session_id |-> sid, created_at |-> isoformat(t)], <<>>)
    IN  Put(chs, sid, ProvenanceChain(sid, <<genesis>>, genesis.hash, t))

\* The body of _add_node and of record_synthesis once the chain was found:
\* build the node, hash it, append it.  No parent id is looked up.
append_node(chs, s, type, data, parents, t, u) ==
    LET node == ProvenanceNode(NewNodeId(s, u), type, t, data, parents)
    IN  Put(chs, s, [chs[s] EXCEPT !.nodes = Append(@, node)])

add_node_over_sibling(chs, s, type, data, parent_id, t, u) ==
    LET nodes == chs[s].nodes
        node == ProvenanceNode(NewNodeId(s, u), type, t, data, <<parent_id>>)
    IN  IF nodes[Len(nodes)].node_type = type
        THEN Put(chs, s, [chs[s] EXCEPT !.nodes = [nodes EXCEPT ![Len(nodes)] = node]])
        ELSE append_node(chs, s, type, data, <<parent_id>>, t, u)

add_node_under_genesis(chs, s, type, data, parent_id, t, u) ==
    append_node(chs, s, type, data, <<GenesisId(s)>>, t, u)

_add_node(chs, s, type, data, parent_id, t, u) ==
    append_node(chs, s, type, data, <<parent_id>>, t, u)

HashesValid(chain) ==
    \A i \in 1..Len(chain.nodes) :
        chain.nodes[i].hash = _compute_hash(chain.nodes[i])

ParentsExist(chain) ==
    \A i \in 1..Len(chain.nodes) :
        \A j \in 1..Len(chain.nodes[i].parent_ids) :
            \E k \in 1..Len(chain.nodes) :
                chain.nodes[k].node_id = chain.nodes[i].parent_ids[j]

RootHashValid(chain) ==
    chain.nodes # <<>> => chain.nodes[1].hash = chain.root_hash

verify_skips_parents(chs, s) ==
    /\ s \in DOMAIN chs
    /\ HashesValid(chs[s])
    /\ RootHashValid(chs[s])

verify_chain(chs, s) ==
    /\ s \in DOMAIN chs
    /\ HashesValid(chs[s])
    /\ ParentsExist(chs[s])
    /\ RootHashValid(chs[s])

\* export_chain: model_dump_json() then json.loads(): datetimes become
\* ISO strings.  An untracked session exports nothing.
export_sorts_parents(n) ==
    [n EXCEPT !.timestamp = isoformat(@), !.parent_ids = sorted(@)]

ExportNode(n) == [n EXCEPT !.timestamp = isoformat(@)]
ParseNode(n) == [n EXCEPT !.timestamp = fromisoformat(@)]

export_chain(chs, s) ==
    IF s \notin DOMAIN chs THEN <<>>
    ELSE <<[session_id |-> chs[s].session_id,
            nodes |-> [i \in 1..Len(chs[s].nodes) |-> ExportNode(chs[s].nodes[i])],
            root_hash |-> chs[s].root_hash,
            created_at |-> isoformat(chs[s].created_at)]>>

\* ProvenanceChain(**chain_data)
ParseChain(d) ==
    ProvenanceChain(d.session_id,
                    [i \in 1..Len(d.nodes) |-> ParseNode(d.nodes[i])],
                    d.root_hash, fromisoformat(d.created_at))

import_keeps_entry(chs, d) ==
    LET chain == ParseChain(d)
        stored == Put(chs, chain.session_id, chain)
    IN  [chains |-> stored, ok |-> verify_chain(stored, chain.session_id)]

\* import_chain: store the parsed chain, verify it, delete it again when the
\* verification fails.
import_chain(chs, d) ==
    LET chain == ParseChain(d)
        stored == Put(chs, chain.session_id, chain)
    IN  IF verify_chain(stored, chain.session_id)
        THEN [chains |-> stored, ok |-> TRUE]
        ELSE [chains |-> Drop(stored, chain.session_id), ok |-> FALSE]

\* A document in which the stored hash of node i was replaced by another digest.
AlteredHash(h) == [h EXCEPT !.node_type = "forged"]
AlterDocHash(d, i) == [d EXCEPT !.nodes[i].hash = AlteredHash(@)]

\* A document whose root_hash was replaced; a document with an empty node list.
AlterRootHash(d) == [d EXCEPT !.root_hash = AlteredHash(@)]
WithoutNodes(d) == [d EXCEPT !.nodes = <<>>]

\* The documents a caller may hand to import_chain, made from an export d.
Documents(d) ==
    {d, AlterRootHash(d), WithoutNodes(d)}
        \cup {AlterDocHash(d, i) : i \in 1..Len(d.nodes)}

DocumentKind(d, exported) ==
    IF d = exported THEN "exported"
    ELSE IF d = AlterRootHash(exported) THEN "root_hash altered"
    ELSE IF d = WithoutNodes(exported) THEN "nodes removed"
    ELSE "hash altered"

\* node_map = {node.node_id: node for node in chain.nodes}: of two nodes with
\* one id the later one is kept.
InNodeMap(chain, id) == \E k \in 1..Len(chain.nodes) : chain.nodes[k].node_id = id
NodeMapGet(chain, id) ==
    LET ks == {k \in 1..Len(chain.nodes) : chain.nodes[k].node_id = id}
    IN  chain.nodes[CHOOSE k \in ks : \A m \in ks : m <= k]

Reverse(sq) == [i \in 1..Len(sq) |-> sq[Len(sq) + 1 - i]]

\* The while loop of get_node_lineage: pop the queue's head, skip it when
\* visited, else mark it, and when the chain holds it append the node to the
\* lineage and its parent ids to the queue.
RECURSIVE Walk(_, _, _, _)
Walk(chain, queue, visited, lineage) ==
    IF queue = <<>> THEN lineage
    ELSE LET current_id == Head(queue)
             rest == Tail(queue)
         IN  IF current_id \in visited
             THEN Walk(chain, rest, visited, lineage)
             ELSE IF InNodeMap(chain, current_id)
             THEN Walk(chain, rest \o NodeMapGet(chain, current_id).parent_ids,
                       visited \cup {current_id},
                       Append(lineage, NodeMapGet(chain, current_id)))
             ELSE Walk(chain, rest, visited \cup {current_id}, lineage)

get_node_lineage(chs, s, node_id) ==
    IF s \notin DOMAIN chs THEN <<>>
    ELSE Reverse(Walk(chs[s], <<node_id>>, {}, <<>>))

RECURSIVE SumStepCosts(_, _)
SumStepCosts(nodes, i) ==
    IF i = 0 THEN 0
    ELSE SumStepCosts(nodes, i - 1)
         + (IF nodes[i].node_type = "step" /\ "cost" \in DOMAIN nodes[i].data
            THEN nodes[i].data.cost ELSE 0)

compute_session_cost(chs, s) ==
    IF s \notin DOMAIN chs THEN 0
    ELSE SumStepCosts(chs[s].nodes, Len(chs[s].nodes))

\* ---------------------------------------------------------- governance data
\* CostSentinel.__init__ and the value check() returns: no alert (None) or
\* one alert.  Amounts are hundredths of a dollar.
CostSentinel(budget) ==
    [name |-> "cost_sentinel", enabled |-> TRUE, budget |-> budget, spent |-> 0,
     alerts |-> <<>>]

\* SecuritySentinel.__init__ and ValidationSentinel.__init__; a confidence is
\* a number of hundredths.
SecuritySentinel ==
    [name |-> "security_sentinel", enabled |-> TRUE, alerts |-> <<>>,
     violations |-> <<>>]

ValidationSentinel(min_confidence) ==
    [name |-> "validation_sentinel", enabled |-> TRUE, alerts |-> <<>>,
     min_confidence |-> min_confidence]

\* Texts that are searched are sequences of characters.
general == <<"g", "e", "n", "e", "r", "a", "l">>
security == <<"s", "e", "c", "u", "r", "i", "t", "y">>
safety == <<"s", "a", "f", "e", "t", "y">>
health == <<"h", "e", "a", "l", "t", "h">>
financial == <<"f", "i", "n", "a", "n", "c", "i", "a", "l">>

NoAlert == <<>>
NoCheck == [op |-> "none", state |-> [domain |-> <<>>], enabled |-> TRUE,
            budget |-> 0, alert |-> NoAlert]

\* The governance layer left alone: a sentinel that was never asked.
SentinelManager == [sentinels |-> <<>>, alerts |-> <<>>]

\* Fractions n/d in lowest terms with d > 0 stand for the floats of the
\* guardian, taken to be exact.
RECURSIVE Gcd(_, _)
Gcd(a, b) == IF b = 0 THEN a ELSE Gcd(b, a % b)
Abs(x) == IF x < 0 THEN -x ELSE x
Frac(n, d) ==
    LET sign == IF d < 0 THEN -1 ELSE 1
        g == Gcd(Abs(n), Abs(d))
    IN  [num |-> (sign * n) \div g, den |-> (sign * d) \div g]
FracAdd(x, y) == Frac(x.num * y.den + y.num * x.den, x.den * y.den)
FracMul(x, y) == Frac(x.num * y.num, x.den * y.den)
FracLeq(x, y) == x.num * y.den <= y.num * x.den
FracMin(x, y) == IF FracLeq(x, y) THEN x ELSE y

\* A risk tolerance is written as the value it started from and the
\* normalized amounts averaged into it since, oldest first; Tolerance gives
\* the number: each amount x turns t into (1 - alpha) * t + alpha * x with
\* alpha = 0.1.
RECURSIVE Averaged(_, _)
Averaged(start, amounts) ==
    IF amounts = <<>> THEN start
    ELSE Averaged(FracAdd(FracMul(Frac(9, 10), start),
                          FracMul(Frac(1, 10), Head(amounts))),
                  Tail(amounts))

Tolerance(t) == Averaged(t.start, t.averaged)

\* OperatorProfile(operator_id): no selection counts, risk_tolerance 0.5,
\* baseline_deviation 0.0.
NoPatterns == [t \in {} |-> 0]
OperatorProfile ==
    [selection_patterns |-> NoPatterns,
     risk_tolerance |-> [start |-> Frac(1, 2), averaged |-> <<>>],
     baseline_deviation |-> 0]

\* CognitiveGuardian.__init__
CognitiveGuardian ==
    [profile |-> OperatorProfile, history |-> <<>>, alerts |-> <<>>]
NoneReturned == [all |-> <<>>, since_clear |-> <<>>]

IdleGovernance ==
    /\ cost_sentinel = CostSentinel(0)
    /\ checked = NoCheck
    /\ sentinel_manager = SentinelManager
    /\ returned = NoneReturned
    /\ guardian = CognitiveGuardian
    /\ security_sentinel = SecuritySentinel
    /\ validation_sentinel = ValidationSentinel(80)

\* ----------------------------------------------------------- ledger actions
Payloads == {[v |-> x] : x \in 1..MaxVal}
StepPayloads == Payloads \cup {[cost |-> x] : x \in 1..MaxVal}

\* The parent ids a caller may pass: the ids of the chain's nodes, the id of
\* another session's genesis node, and an id of no node at all.
ParentChoices(s) ==
    IF s \notin DOMAIN chains THEN {GenesisId(s)}
    ELSE NodeIds(chains[s]) \cup {GenesisId(x) : x \in Sessions \ {s}} \cup {NoSuchId}

ParentLists(s) ==
    UNION {[1..n -> ParentChoices(s)] : n \in 0..MaxParents}

record_opens_session(op, s, type, data, parents) ==
    /\ clock < MaxClock
    /\ clock' = clock + 1
    /\ UNCHANGED <<doc, tampered, runVars, govVars>>
    /\ chains' = append_node(IF s \in DOMAIN chains THEN chains
                             ELSE create_session(chains, s, clock),
                             s, type, data, parents, clock, clock + 1)
    /\ last' = [NoLast EXCEPT !.op = op, !.sid = s, !.node = NewNodeId(s, clock + 1)]

\* A record_* call: "Session not found" on an untracked session, else the
\* node is appended.
Record(op, s, type, data, parents) ==
    /\ clock < MaxClock
    /\ clock' = clock + 1
    /\ UNCHANGED <<doc, tampered, runVars, govVars>>
    /\ IF s \notin DOMAIN chains
       THEN /\ chains' = chains
            /\ last' = [NoLast EXCEPT !.op = op, !.sid = s, !.ok = FALSE,
                                      !.raised = "SessionNotFound"]
       ELSE /\ chains' = append_node(chains, s, type, data, parents, clock, clock + 1)
            /\ last' = [NoLast EXCEPT !.op = op, !.sid = s,
                                      !.node = NewNodeId(s, clock + 1),
                                      !.pre = \A j \in 1..Len(parents) :
                                                  parents[j] \in NodeIds(chains[s])]

CreateSession ==
    \E given \in Sessions \cup {None} :
    \E sid \in Sessions :
        /\ clock < MaxClock
        /\ IF given = None THEN sid \notin DOMAIN chains ELSE sid = given
        /\ chains' = create_session(chains, sid, clock)
        /\ clock' = clock + 1
        /\ last' = [NoLast EXCEPT !.op = "create_session", !.sid = sid,
                                  !.pre = sid \notin DOMAIN chains]
        /\ UNCHANGED <<doc, tampered, runVars, govVars>>

RecordIntent ==
    \E s \in Sessions, data \in Payloads :
    \E parent_id \in ParentChoices(s) \cup {NoneId} :
        Record("record_intent", s, "intent", data,
               <<IF parent_id = NoneId THEN GenesisId(s) ELSE parent_id>>)

RecordPlan ==
    \E s \in Sessions, data \in Payloads :
    \E parent_id \in ParentChoices(s) :
        Record("record_plan", s, "plan", data, <<parent_id>>)

RecordStep ==
    \E s \in Sessions, data \in StepPayloads :
    \E parent_id \in ParentChoices(s) :
        Record("record_step", s, "step", data, <<parent_id>>)

RecordResult ==
    \E s \in Sessions, data \in Payloads :
    \E parent_id \in ParentChoices(s) :
        Record("record_result", s, "result", data, <<parent_id>>)

RecordSynthesis ==
    \E s \in Sessions, data \in Payloads :
    \E parent_ids \in ParentLists(s) :
        Record("record_synthesis", s, "synthesis", data, parent_ids)

ExportChain ==
    \E s \in Sessions :
        /\ doc' = export_chain(chains, s)
        /\ last' = [NoLast EXCEPT !.op = "export_chain", !.sid = s,
                                  !.ok = s \in DOMAIN chains]
        /\ UNCHANGED <<chains, clock, tampered, runVars, govVars>>

\* import_chain of the document the caller holds: as exported, with the
\* stored hash of one of its nodes altered, with its root_hash altered, or
\* with its nodes removed.
ImportChain ==
    /\ doc # <<>>
    /\ \E d \in Documents(doc[1]) :
        /\ chains' = import_chain(chains, d).chains
        /\ last' = [NoLast EXCEPT !.op = "import_chain", !.sid = d.session_id,
                                  !.ok = import_chain(chains, d).ok,
                                  !.altered = (DocumentKind(d, doc[1]) = "hash altered"),
                                  !.document = DocumentKind(d, doc[1])]
    /\ UNCHANGED <<clock, doc, tampered, runVars, govVars>>

\* The budget of an intent that carries none.
NoBudget == -1

\* ProtocolHandler.__init__: no client yet.  A client (the transport handle)
\* is a positive number; open holds the clients made and not yet closed.
NoClient == 0

Executions == 1..MaxExecutions

NewExecution == [pc |-> "idle", acquired |-> NoClient, used |-> {},
                 sends |-> 0, on_closed |-> FALSE]

NoExecutions == [e \in Executions |-> NewExecution]
ProtocolHandler == [client |-> NoClient, open |-> {}, made |-> 0]

\* budget and estimated_cost are held for validate_plan only: nothing reads
\* them once the plan was validated.
NoRun == [session |-> 0, plan_node |-> NoSuchId, groups |-> <<>>, gi |-> 0,
          total_cost |-> 0, deliverables |-> <<>>,
          estimated_cost |-> 0, budget |-> NoBudget,
          fault |-> "none", message |-> ""]
NoResult == [status |-> "none", cost |-> 0, error |-> "", deliverables |-> <<>>]

InitLedger ==
    /\ chains = <<>>
    /\ clock = 0
    /\ last = NoLast
    /\ doc = <<>>
    /\ tampered = FALSE
    /\ registry = {}
    /\ max_retries = 0
    /\ pc = "idle"
    /\ run = NoRun
    /\ steps = <<>>
    /\ tasks = <<>>
    /\ result = NoResult
    /\ protocol = ProtocolHandler
    /\ executions = NoExecutions
    /\ IdleGovernance

NextLedger ==
    \/ CreateSession
    \/ RecordIntent
    \/ RecordPlan
    \/ RecordStep
    \/ RecordResult
    \/ RecordSynthesis

\* The ledger driven through its recording interface alone.
SpecLedger == InitLedger /\ [][NextLedger]_vars

NextPort ==
    \/ NextLedger
    \/ ExportChain
    \/ ImportChain

\* The ledger with export and import of chain documents.
SpecPort == InitLedger /\ [][NextPort]_vars

\* ------------------------------------------------- modification from outside
\* ProvenanceNode and ProvenanceChain are mutable objects handed out by
\* get_chain(): a holder can assign to a node's data, rename a node or remove
\* it from chain.nodes.  The stored hashes stay as they were.
FieldValues(k) ==
    IF k = "created_at" THEN {isoformat(t) : t \in 0..MaxClock}
    ELSE IF k = "session_id" THEN 0..MaxSessions
    ELSE 0..(MaxVal + 1)

RemoveAt(sq, i) == [j \in 1..(Len(sq) - 1) |-> IF j < i THEN sq[j] ELSE sq[j + 1]]

IsReferenced(chain, i) ==
    \E j \in 1..Len(chain.nodes) :
        /\ j # i
        /\ \E m \in 1..Len(chain.nodes[j].parent_ids) :
               chain.nodes[j].parent_ids[m] = chain.nodes[i].node_id

TamperData ==
    \E s \in DOMAIN chains :
    \E i \in 1..Len(chains[s].nodes) :
    \E k \in DOMAIN chains[s].nodes[i].data :
    \E v \in FieldValues(k) \ {chains[s].nodes[i].data[k]} :
        /\ ~tampered
        /\ tampered' = TRUE
        /\ chains' = [chains EXCEPT ![s].nodes[i].data[k] = v]
        /\ last' = [NoLast EXCEPT !.op = "tamper_data", !.sid = s,
                                  !.node = chains[s].nodes[i].node_id,
                                  !.pre = verify_chain(chains, s)]
        /\ UNCHANGED <<clock, doc, runVars, govVars>>

DeleteNode ==
    \E s \in DOMAIN chains :
    \E i \in 1..Len(chains[s].nodes) :
        /\ ~tampered
        /\ tampered' = TRUE
        /\ chains' = [chains EXCEPT ![s].nodes = RemoveAt(@, i)]
        /\ last' = [NoLast EXCEPT !.op = "delete_node", !.sid = s,
                                  !.node = chains[s].nodes[i].node_id,
                                  !.pre = verify_chain(chains, s),
                                  !.referenced = IsReferenced(chains[s], i)]
        /\ UNCHANGED <<clock, doc, runVars, govVars>>

RenameNode ==
    \E s \in DOMAIN chains :
    \E i \in 1..Len(chains[s].nodes) :
    \E id \in (NodeIds(chains[s]) \cup {NewNodeId(s, MaxClock + 1), NoSuchId})
              \ {chains[s].nodes[i].node_id} :
        /\ ~tampered
        /\ tampered' = TRUE
        /\ chains' = [chains EXCEPT ![s].nodes[i].node_id = id]
        /\ last' = [NoLast EXCEPT !.op = "rename_node", !.sid = s,
                                  !.node = chains[s].nodes[i].node_id,
                                  !.pre = verify_chain(chains, s),
                                  !.referenced = IsReferenced(chains[s], i)]
        /\ UNCHANGED <<clock, doc, runVars, govVars>>

NextTamper ==
    \/ NextLedger
    \/ TamperData
    \/ DeleteNode
    \/ RenameNode

\* The ledger with one modification of a stored chain from outside.
SpecTamper == InitLedger /\ [][NextTamper]_vars

\* ------------------------------------------------------- the read-only calls
\* What a call leaves in self._chains and what it returns.
verify_then_repair(chs, s) ==
    IF s \in DOMAIN chs /\ ~verify_chain(chs, s)
    THEN [chains |-> Drop(chs, s), returned |-> FALSE]
    ELSE [chains |-> chs, returned |-> s \in DOMAIN chs]

\* verify_chain assigns to nothing but its locals.
VerifyCall(chs, s) == [chains |-> chs, returned |-> verify_chain(chs, s)]

\* get_node_lineage builds node_map, visited, queue and lineage of its own.
LineageCall(chs, s, node_id) ==
    [chains |-> chs, returned |-> get_node_lineage(chs, s, node_id)]

CostCall(chs, s) == [chains |-> chs, returned |-> compute_session_cost(chs, s)]

Returned(l, value) ==
    [k \in (DOMAIN l) \cup {"returned"} |-> IF k = "returned" THEN value ELSE l[k]]

VerifyChain ==
    \E s \in Sessions :
        /\ chains' = VerifyCall(chains, s).chains
        /\ last' = Returned([NoLast EXCEPT !.op = "verify_chain", !.sid = s,
                                           !.ok = VerifyCall(chains, s).returned],
                            VerifyCall(chains, s).returned)
        /\ UNCHANGED <<clock, doc, tampered, runVars, govVars>>

GetNodeLineage ==
    \E s \in Sessions :
    \E node_id \in ParentChoices(s) :
        /\ chains' = LineageCall(chains, s, node_id).chains
        /\ last' = Returned([NoLast EXCEPT !.op = "get_node_lineage", !.sid = s,
                                           !.node = node_id],
                            LineageCall(chains, s, node_id).returned)
        /\ UNCHANGED <<clock, doc, tampered, runVars, govVars>>

ComputeSessionCost ==
    \E s \in Sessions :
        /\ chains' = CostCall(chains, s).chains
        /\ last' = Returned([NoLast EXCEPT !.op = "compute_session_cost", !.sid = s],
                            CostCall(chains, s).returned)
        /\ UNCHANGED <<clock, doc, tampered, runVars, govVars>>

NextRead ==
    \/ NextLedger
    \/ TamperData
    \/ VerifyChain
    \/ GetNodeLineage
    \/ ComputeSessionCost

\* The ledger, with or without a node's data modified from outside, and its
\* read-only calls.
SpecRead == InitLedger /\ [][NextRead]_vars

\* ============================================================ plan runner
Servers == {"alpha", "beta"}
NoneGroup == 0
GroupIds == {NoneGroup} \cup 1..MaxGroup

\* `if plan.intent.budget:` takes a float for true unless it is 0.0.
Truthy(budget) == budget # NoBudget /\ budget # 0

OrchestrationStep(id, server, group) ==
    [step_id |-> id, server_name |-> server, tool_name |-> "tool",
     dependencies |-> {}, status |-> "pending", parallel_group |-> group]

\* The plans a run is given: every list of at most MaxSteps steps.
PlanShapes == UNION {[1..n -> Servers \X GroupIds] : n \in 0..MaxSteps}
OrchestrationPlan(shape) ==
    [steps |-> [i \in 1..Len(shape) |-> OrchestrationStep(i, shape[i][1], shape[i][2])],
     estimated_cost |-> 0, budget |-> NoBudget]

\* The budgets an intent may carry and the costs a plan may estimate.
Budgets == {NoBudget} \cup 0..MaxBudget
Estimates == 0..(MaxBudget + 1)

\* The plan with a budget on its intent and an estimated cost; the plan whose
\* step i names step id d as a dependency (id Len + 1 is the id of no step).
WithBudget(plan, est, budget) ==
    [plan EXCEPT !.estimated_cost = est, !.budget = budget]
WithDependency(plan, i, d) == [plan EXCEPT !.steps[i].dependencies = {d}]

\* The plans execute_async gets from generate_plan: a list of steps, bare, or
\* with a budget and an estimate, or with a dependency on its last step that
\* names the first step or no step.
PlanInputs ==
    UNION {LET plan == OrchestrationPlan(shape)
           IN  {plan}
                 \cup {WithBudget(plan, est, b) : est \in Estimates, b \in Budgets}
                 \cup {WithDependency(plan, Len(shape), d) :
                            d \in IF shape = <<>> THEN {} ELSE {1, Len(shape) + 1}}
           : shape \in PlanShapes}

\* validate_plan: budget, then servers, then dependencies; "" is (True, None).
validate_plan(plan, reg) ==
    IF Truthy(plan.budget) /\ plan.estimated_cost > plan.budget
    THEN "BudgetExceeded"
    ELSE IF \E i \in 1..Len(plan.steps) : plan.steps[i].server_name \notin reg
    THEN "UnknownCapability"
    ELSE IF \E i \in 1..Len(plan.steps) : \E d \in plan.steps[i].dependencies :
                \A j \in 1..Len(plan.steps) : plan.steps[j].step_id # d
    THEN "DanglingDependency"
    ELSE ""

\* The grouping loop of _execute_plan; a group lists the indices of its steps.
RECURSIVE SplitGroups(_, _, _, _, _)
SplitGroups(st, i, groups, current_group, current_parallel_id) ==
    IF i > Len(st)
    THEN IF current_group # <<>> THEN Append(groups, current_group) ELSE groups
    ELSE IF st[i].parallel_group # current_parallel_id
    THEN SplitGroups(st, i + 1,
                     IF current_group # <<>> THEN Append(groups, current_group)
                                             ELSE groups,
                     <<i>>, st[i].parallel_group)
    ELSE SplitGroups(st, i + 1, groups, Append(current_group, i),
                     current_parallel_id)

groups_by_value(st) ==
    LET idx == [i \in 1..Len(st) |-> i]
        firsts == SelectSeq(idx, LAMBDA i :
                      \A j \in 1..(i - 1) : st[j].parallel_group # st[i].parallel_group)
    IN  [k \in 1..Len(firsts) |->
            SelectSeq(idx, LAMBDA i :
                st[i].parallel_group = st[firsts[k]].parallel_group)]

sequential_groups(st) == SplitGroups(st, 1, <<>>, <<>>, NoneGroup)

Members(group) == {group[k] : k \in 1..Len(group)}

\* ------------------------------------------------------------------ tasks
NoResponse == [result |-> "none", error |-> "", cost |-> 0]
NewTask == [st |-> "new", attempt |-> 0, calls |-> 0, failures |-> 0,
            waits |-> <<>>, step_node |-> NoSuchId, response |-> NoResponse,
            client |-> NoClient]

\* self._client = httpx.AsyncClient(timeout=self.timeout)
NewClient(p) ==
    [client |-> p.made + 1, open |-> p.open \cup {p.made + 1}, made |-> p.made + 1]

\* ProtocolHandler.__aenter__
aenter(p) == NewClient(p)

\* ProtocolHandler.__aexit__: the client is closed; self._client keeps it.
aexit(p) == IF p.client # NoClient THEN [p EXCEPT !.open = @ \ {p.client}] ELSE p

\* _execute_request: `if not self._client:` make one; the POST goes out on
\* self._client.
ClientForRequest(p) == IF p.client = NoClient THEN NewClient(p) ELSE p

\* What a capability answers with a success status: a result with its cost,
\* or a body that carries an error.
Responses ==
    {[result |-> "ok", error |-> "", cost |-> c] : c \in 1..MaxCost}
        \cup {[result |-> "none", error |-> "tool error", cost |-> 0]}

\* str(e) of the exception an attempt fails with: a message, or the empty
\* string of an exception raised without arguments (a timeout of the client).
Messages == {"request failed", ""}

\* The Response send_request builds when the last attempt failed.
ErrorResponse(msg) == [result |-> "none", error |-> msg, cost |-> 0]

settled_by_return(tk, i) == tk[i].st = "returned"

settled_when_posted(tk, i) == tk[i].st \in {"returned", "raised", "awaiting"}

\* A task is done: _execute_step returned or raised.
Settled(tk, i) == tk[i].st \in {"returned", "raised"}

gather_returns_on_first(group, tk) == \E i \in Members(group) : Settled(tk, i)

\* await asyncio.gather(*tasks, return_exceptions=True) returns once every
\* task of the group has returned or raised.
GatherSettled(group, tk) == \A i \in Members(group) : Settled(tk, i)

gather_raises_first(group, tk) == \E i \in Members(group) : tk[i].st = "raised"

\* With return_exceptions=True an exception of a task is a result of the
\* gather; the gather itself never raises it.
GatherRaises(group, tk) == FALSE

Schedule(tk, group) ==
    [i \in 1..Len(tk) |-> IF i \in Members(group) THEN [tk[i] EXCEPT !.st = "pending"]
                          ELSE tk[i]]

StepData(step) ==
    [step_id |-> step.step_id, server |-> step.server_name,
     tool |-> step.tool_name, parameters |-> <<>>]

ResultData(step, response) ==
    [step_id |-> step.step_id, result |-> response.result,
     cost |-> response.cost, error |-> response.error]

\* The rest of _execute_step once send_request returned: record the result
\* node under the step node and return (response, response.cost).
FinishStep(i, step_node, failures, response) ==
    /\ chains' = _add_node(chains, run.session, "result",
                           ResultData(steps[i], response), step_node,
                           clock, clock + 1)
    /\ clock' = clock + 1
    /\ tasks' = [tasks EXCEPT ![i].st = "returned", ![i].failures = failures,
                              ![i].response = response]

\* ----------------------------------------------------------- run actions
FreshSession ==
    CHOOSE s \in Sessions \ DOMAIN chains : \A x \in Sessions \ DOMAIN chains : s <= x

cost_of_last_step(group, tk, k) ==
    IF k = 0 \/ tk[group[k]].st = "raised" THEN 0 ELSE tk[group[k]].response.cost

\* total_cost += cost, once for each result of the group that is not an
\* exception.
RECURSIVE SumCosts(_, _, _)
SumCosts(group, tk, k) ==
    IF k = 0 THEN 0
    ELSE SumCosts(group, tk, k - 1)
         + (IF tk[group[k]].st = "raised" THEN 0 ELSE tk[group[k]].response.cost)

\* The "Process results" loop of _execute_plan over one group.
StatusAfter(tk, i) == IF tk[i].st = "raised" THEN "failed" ELSE "completed"

process_marks_every_step(st, group, tk) ==
    [i \in 1..Len(st) |-> [st[i] EXCEPT !.status = StatusAfter(tk, i)]]

ProcessedSteps(st, group, tk) ==
    [i \in 1..Len(st) |-> IF i \in Members(group)
                          THEN [st[i] EXCEPT !.status = StatusAfter(tk, i)]
                          ELSE st[i]]

deliverables_of_every_step(dl, st, group, tk) ==
    LET new == {st[i].step_id : i \in Members(group)}
    IN  [id \in (DOMAIN dl) \cup new |->
            IF id \in new
            THEN tk[CHOOSE i \in Members(group) : st[i].step_id = id].response.result
            ELSE dl[id]]

ProcessedDeliverables(dl, st, group, tk) ==
    LET new == {st[i].step_id : i \in {j \in Members(group) : tk[j].st # "raised"}}
    IN  [id \in (DOMAIN dl) \cup new |->
            IF id \in new
            THEN tk[CHOOSE i \in Members(group) : st[i].step_id = id].response.result
            ELSE dl[id]]

\* The calls of execute_async that may fail unexpectedly before the first
\* await, and where the failure of a run shows: inside _execute_plan, or when
\* the ExecutionResult is built.
StartFaults == {"create_session", "parse_intent", "record_intent",
                "generate_plan", "validate_plan", "record_plan", "aenter"}
RunFaults == {"execute_plan", "build_result"}

try_after_intent(point) ==
    point \notin {"create_session", "parse_intent", "record_intent"}

\* The try block of execute_async opens after create_session (line 132):
\* `except Exception` gets what the calls inside it raise.
InsideTry(point) == point # "create_session"

\* What execute_async ends with when a call raised with message msg: the
\* ExecutionResult of the except branch, or the exception itself.
Failed(point, msg, chs, s) ==
    IF InsideTry(point)
    THEN [NoResult EXCEPT !.status = "failed", !.error = msg,
                          !.cost = compute_session_cost(chs, s)]
    ELSE [NoResult EXCEPT !.status = "raised", !.error = msg]

\* The nodes execute_async has recorded when the call at point raises.
RecordedBefore(point) ==
    IF point = "create_session" THEN 0
    ELSE IF point \in {"parse_intent", "record_intent"} THEN 1
    ELSE IF point \in {"generate_plan", "validate_plan", "record_plan"} THEN 2
    ELSE 3

\* execute_async up to the first await: create the session, record the
\* intent, validate the plan, record it, open the protocol handler and hand
\* the first group to gather.  With point = "none" nothing fails; otherwise
\* the call at point, one of points, raises with message msg when it is
\* reached.
ExecuteAsync(points) ==
    /\ pc = "idle"
    /\ Sessions \ DOMAIN chains # {}
    /\ \E plan \in PlanInputs, point \in {"none"} \cup points, msg \in Messages :
        LET s == FreshSession
            chs1 == create_session(chains, s, clock)
            chs2 == _add_node(chs1, s, "intent", [objective |-> "intent"],
                              GenesisId(s), clock + 1, clock + 2)
            chs3 == _add_node(chs2, s, "plan", [steps |-> Len(plan.steps)],
                              NewNodeId(s, clock + 2), clock + 2, clock + 3)
            error == validate_plan(plan, registry)
            groups == sequential_groups(plan.steps)
            fresh == [i \in 1..Len(plan.steps) |-> NewTask]
            recorded == RecordedBefore(point)
            chs == IF recorded = 0 THEN chains ELSE IF recorded = 1 THEN chs1
                   ELSE IF recorded = 2 THEN chs2 ELSE chs3
            has_plan == point \in {"validate_plan", "record_plan", "aenter"}
        IN  /\ point = "none" <=> msg = ""
            /\ IF point # "none"
               THEN /\ has_plan \/ plan = OrchestrationPlan(<<>>)
                    /\ point \in {"record_plan", "aenter"} => error = ""
                    /\ steps' = IF has_plan THEN plan.steps ELSE <<>>
                    /\ tasks' = IF has_plan THEN fresh ELSE <<>>
                    /\ chains' = chs
                    /\ clock' = clock + recorded
                    /\ run' = [NoRun EXCEPT !.session = IF recorded = 0 THEN 0 ELSE s,
                                            !.fault = point, !.message = msg]
                    /\ pc' = "done"
                    /\ result' = Failed(point, msg, chs, s)
                    /\ protocol' = protocol
               ELSE /\ steps' = plan.steps
                    /\ IF error # ""
                       THEN /\ chains' = chs2
                            /\ clock' = clock + 2
                            /\ run' = [NoRun EXCEPT !.session = s]
                            /\ tasks' = fresh
                            /\ pc' = "done"
                            /\ result' = [NoResult EXCEPT !.status = "failed",
                                                          !.error = error]
                            /\ protocol' = protocol
                       ELSE /\ chains' = chs3
                            /\ clock' = clock + 3
                            /\ run' = [NoRun EXCEPT
                                         !.session = s,
                                         !.plan_node = NewNodeId(s, clock + 3),
                                         !.groups = groups,
                                         !.gi = IF groups = <<>> THEN 0 ELSE 1]
                            /\ IF groups = <<>>
                               THEN /\ tasks' = fresh
                                    /\ pc' = "done"
                                    /\ result' = [NoResult EXCEPT !.status = "completed"]
                                    /\ protocol' = aexit(aenter(protocol))
                               ELSE /\ tasks' = Schedule(fresh, groups[1])
                                    /\ pc' = "running"
                                    /\ result' = result
                                    /\ protocol' = aenter(protocol)
    /\ UNCHANGED <<last, doc, tampered, registry, max_retries, executions, govVars>>

get_server_as_validated(reg, name) == TRUE

\* `server = self.registry.get_server(step.server_name)`, as tested by
\* `if not server`.
get_server(reg, name) == name \in reg

\* A task's first run, up to its first await: look the server up (raise when
\* it is gone), record the step node, and enter send_request, which with
\* max_retries = 0 returns its error Response at once and otherwise posts
\* its first attempt on the client.  w holds the chains, the clock, the
\* tasks and the protocol handler.
StartOne(w, i) ==
    IF ~get_server(registry, steps[i].server_name)
    THEN [w EXCEPT !.tasks[i].st = "raised"]
    ELSE LET step_node == NewNodeId(run.session, w.clock + 1)
             chs1 == _add_node(w.chains, run.session, "step", StepData(steps[i]),
                               run.plan_node, w.clock, w.clock + 1)
             response == ErrorResponse("Max retries exceeded")
         IN  IF max_retries = 0
             THEN [chains |-> _add_node(chs1, run.session, "result",
                                        ResultData(steps[i], response),
                                        step_node, w.clock + 1, w.clock + 2),
                   clock |-> w.clock + 2,
                   tasks |-> [w.tasks EXCEPT ![i] =
                                [NewTask EXCEPT !.st = "returned",
                                                !.step_node = step_node,
                                                !.response = response]],
                   protocol |-> w.protocol]
             ELSE [chains |-> chs1,
                   clock |-> w.clock + 1,
                   tasks |-> [w.tasks EXCEPT ![i] =
                                [NewTask EXCEPT
                                    !.st = "awaiting", !.calls = 1,
                                    !.step_node = step_node,
                                    !.client = ClientForRequest(w.protocol).client]],
                   protocol |-> ClientForRequest(w.protocol)]

\* The first runs of the first k tasks of the group, one after another: v is
\* what the earlier ones left, r what the k-th makes of it.
RECURSIVE StartAll(_, _, _)
StartAll(w, group, k) ==
    IF k = 0 THEN w
    ELSE CHOOSE r \in {StartOne(v, group[k]) : v \in {StartAll(w, group, k - 1)}} : TRUE

\* The event loop runs the tasks gather created: they were queued one after
\* another, so they take their first runs back to back, in list order.
StartTasks ==
    /\ pc = "running"
    /\ \E i \in 1..Len(tasks) : tasks[i].st = "pending"
    /\ LET group == run.groups[run.gi]
           w == StartAll([chains |-> chains, clock |-> clock, tasks |-> tasks,
                          protocol |-> protocol],
                         group, Len(group))
       IN  /\ chains' = w.chains
           /\ clock' = w.clock
           /\ tasks' = w.tasks
           /\ protocol' = w.protocol
    /\ UNCHANGED <<last, doc, tampered, registry, max_retries, executions, pc, run, steps, result, govVars>>

\* An attempt's POST is answered with a success status: send_request returns
\* the parsed Response.
AttemptSucceeds ==
    \E i \in 1..Len(tasks) :
    \E response \in Responses :
        /\ pc = "running"
        /\ tasks[i].st = "awaiting"
        /\ \A j \in 1..Len(tasks) : tasks[j].st # "pending"
        /\ FinishStep(i, tasks[i].step_node, tasks[i].failures, response)
        /\ UNCHANGED <<last, doc, tampered, registry, max_retries, executions, pc, run, steps,
                       result, protocol, govVars>>

retry_below_max(attempt, max) == attempt < max

\* `if attempt < self.max_retries - 1`: a failed attempt is followed by a
\* sleep and another attempt.
Retry(attempt, max) == attempt < max - 1

\* An attempt raises (transport failure, timeout, error status): sleep before
\* the next attempt, or after the last one return the error Response.
AttemptFails ==
    \E i \in 1..Len(tasks) :
        /\ pc = "running"
        /\ tasks[i].st = "awaiting"
        /\ \A j \in 1..Len(tasks) : tasks[j].st # "pending"
        /\ IF Retry(tasks[i].attempt, max_retries)
           THEN /\ tasks' = [tasks EXCEPT ![i].st = "sleeping",
                                          ![i].failures = @ + 1,
                                          ![i].waits = Append(@, 2 ^ tasks[i].attempt)]
                /\ UNCHANGED <<chains, clock>>
           ELSE \E msg \in Messages :
                    FinishStep(i, tasks[i].step_node, tasks[i].failures + 1,
                               ErrorResponse(msg))
        /\ UNCHANGED <<last, doc, tampered, registry, max_retries, executions, pc, run, steps,
                       result, protocol, govVars>>

\* asyncio.sleep(2**attempt) is over: the next attempt is issued.
SleepDone ==
    \E i \in 1..Len(tasks) :
        /\ pc = "running"
        /\ tasks[i].st = "sleeping"
        /\ tasks' = [tasks EXCEPT ![i].st = "awaiting", ![i].attempt = @ + 1,
                                  ![i].calls = @ + 1,
                                  ![i].client = ClientForRequest(protocol).client]
        /\ protocol' = ClientForRequest(protocol)
        /\ UNCHANGED <<ledgerVars, registry, max_retries, executions, pc, run, steps, result, govVars>>

\* The gather of the current group returns: its results are processed, and
\* the next group is handed to gather or the run returns.  A gather that
\* raises ends execute_async in its except branch, and so does a failure
\* inside _execute_plan (point "execute_plan", before the results of the
\* group are processed) or in building the ExecutionResult ("build_result",
\* after the last group).  Leaving `async with self.protocol` on any of
\* these ways runs __aexit__.
GatherDone(points) ==
    /\ pc = "running"
    /\ \E point \in {"none"} \cup points, msg \in Messages :
       LET group == run.groups[run.gi]
           total == run.total_cost + SumCosts(group, tasks, Len(group))
           dl == ProcessedDeliverables(run.deliverables, steps, group, tasks)
       IN  /\ GatherRaises(group, tasks) \/ GatherSettled(group, tasks)
           /\ point = "none" <=> msg = ""
           /\ point = "build_result" => run.gi = Len(run.groups)
           /\ protocol' = IF point = "none" /\ ~GatherRaises(group, tasks)
                             /\ run.gi < Len(run.groups)
                          THEN protocol ELSE aexit(protocol)
           /\ IF GatherRaises(group, tasks)
              THEN /\ point = "none"
                   /\ pc' = "done"
                   /\ result' = [NoResult EXCEPT
                                   !.status = "failed",
                                   !.cost = compute_session_cost(chains, run.session),
                                   !.error = "step raised"]
                   /\ UNCHANGED <<run, steps, tasks>>
              ELSE IF point = "execute_plan"
              THEN /\ pc' = "done"
                   /\ run' = [run EXCEPT !.fault = point, !.message = msg]
                   /\ result' = Failed(point, msg, chains, run.session)
                   /\ UNCHANGED <<steps, tasks>>
              ELSE /\ steps' = ProcessedSteps(steps, group, tasks)
                   /\ IF run.gi < Len(run.groups)
                      THEN /\ run' = [run EXCEPT !.total_cost = total,
                                                 !.deliverables = dl,
                                                 !.gi = @ + 1]
                           /\ tasks' = Schedule(tasks, run.groups[run.gi + 1])
                           /\ UNCHANGED <<pc, result>>
                      ELSE /\ run' = [run EXCEPT !.total_cost = total,
                                                 !.deliverables = dl,
                                                 !.fault = point,
                                                 !.message = msg]
                           /\ pc' = "done"
                           /\ result' =
                                IF point = "build_result"
                                THEN Failed(point, msg, chains, run.session)
                                ELSE [NoResult EXCEPT !.status = "completed",
                                                      !.cost = total,
                                                      !.deliverables = dl]
                           /\ UNCHANGED tasks
    /\ UNCHANGED <<ledgerVars, registry, max_retries, executions, govVars>>

\* ToolRegistry.unregister called while a run is suspended.
Unregister ==
    \E name \in registry :
        /\ pc = "running"
        /\ registry' = registry \ {name}
        /\ UNCHANGED <<ledgerVars, max_retries, executions, pc, run, steps, tasks, result,
                       protocol, govVars>>

InitRun ==
    /\ chains = <<>>
    /\ clock = 0
    /\ last = NoLast
    /\ doc = <<>>
    /\ tampered = FALSE
    /\ registry \in SUBSET Servers
    /\ max_retries \in 0..MaxRetry
    /\ pc = "idle"
    /\ run = NoRun
    /\ steps = <<>>
    /\ tasks = <<>>
    /\ result = NoResult
    /\ protocol = ProtocolHandler
    /\ executions = NoExecutions
    /\ IdleGovernance

NextRun ==
    \/ ExecuteAsync({})
    \/ StartTasks
    \/ AttemptSucceeds
    \/ AttemptFails
    \/ SleepDone
    \/ GatherDone({})
    \/ Unregister

\* One execution of a plan by the kernel in which no call fails unexpectedly.
SpecRun == InitRun /\ [][NextRun]_vars

\* What the event loop and the servers are relied on for: a task that is
\* ready is run, a sleep ends, a gather whose tasks are done returns, and an
\* attempt that was posted is answered or fails (the client's timeout).
\* Nothing is asked of unregister or of the caller.
Scheduling ==
    /\ WF_vars(StartTasks)
    /\ WF_vars(AttemptSucceeds \/ AttemptFails)
    /\ WF_vars(SleepDone)
    /\ WF_vars(GatherDone({}))

\* A kernel with one server registered, which may be unregistered mid-run.
InitLive == InitRun /\ \E name \in Servers : registry = {name}

\* The executions of such a kernel under that scheduling.
SpecLive == InitLive /\ [][NextRun]_vars /\ Scheduling

\* A handler that served an execution before: its client is set and closed.
UsedHandler == aexit(aenter(ProtocolHandler))

InitFaults ==
    /\ chains = <<>>
    /\ clock = 0
    /\ last = NoLast
    /\ doc = <<>>
    /\ tampered = FALSE
    /\ \E name \in Servers : registry = {name}
    /\ max_retries \in 0..MaxRetry
    /\ pc = "idle"
    /\ run = NoRun
    /\ steps = <<>>
    /\ tasks = <<>>
    /\ result = NoResult
    /\ protocol \in {ProtocolHandler, UsedHandler}
    /\ executions = NoExecutions
    /\ IdleGovernance

NextFaults ==
    \/ ExecuteAsync(StartFaults)
    \/ StartTasks
    \/ AttemptSucceeds
    \/ AttemptFails
    \/ SleepDone
    \/ GatherDone(RunFaults)
    \/ Unregister

\* One execution in which any call of execute_async may fail unexpectedly,
\* by a kernel whose handler is new or has served an execution before.
SpecFaults == InitFaults /\ [][NextFaults]_vars

\* ------------------------------------------ executions sharing one handler
\* A kernel has one ProtocolHandler, and every execute_async call on it runs
\* its plan inside `async with self.protocol`.  The calls are coroutines of
\* one event loop, so a second call may start while the first is suspended
\* in a request.  Each is followed here at the handler only: where it
\* stands, the client __aenter__ gave it, the clients its requests were
\* posted on, and whether one of them was closed when the request was posted.
Aenter(e) ==
    /\ executions[e].pc = "idle"
    /\ protocol' = aenter(protocol)
    /\ executions' = [executions EXCEPT ![e].pc = "inside",
                                        ![e].acquired = aenter(protocol).client]
    /\ UNCHANGED <<ledgerVars, registry, max_retries, pc, run, steps, tasks,
                   result, govVars>>

\* A step of execution e posts an attempt: _execute_request makes a client
\* when the handler has none and posts on self._client.
ExecuteRequest(e) ==
    /\ executions[e].pc = "inside"
    /\ executions[e].sends < MaxSends
    /\ LET p == ClientForRequest(protocol)
       IN  /\ protocol' = p
           /\ executions' = [executions EXCEPT
                                ![e].sends = @ + 1,
                                ![e].used = @ \cup {p.client},
                                ![e].on_closed = @ \/ p.client \notin p.open]
    /\ UNCHANGED <<ledgerVars, registry, max_retries, pc, run, steps, tasks,
                   result, govVars>>

\* The requests of execution e were answered and it leaves the `async with`
\* block: __aexit__.
Aexit(e) ==
    /\ executions[e].pc = "inside"
    /\ protocol' = aexit(protocol)
    /\ executions' = [executions EXCEPT ![e].pc = "done"]
    /\ UNCHANGED <<ledgerVars, registry, max_retries, pc, run, steps, tasks,
                   result, govVars>>

InitHandler ==
    /\ InitRun
    /\ registry = Servers
    /\ max_retries = MaxRetry

NextHandler ==
    \E e \in Executions :
        \/ Aenter(e)
        \/ ExecuteRequest(e)
        \/ Aexit(e)

\* The execute_async calls made on one kernel, one after another or
\* overlapping, as the protocol handler sees them.
SpecHandler == InitHandler /\ [][NextHandler]_vars

\* ------------------------------------------------------ validate_plan alone
\* The step lists validate_plan is applied to: up to MaxSteps steps, each on a
\* server and with no dependency or one dependency id (an id above the
\* number of steps is the id of no step).
DependencyChoices == {{}} \cup {{d} : d \in 1..(MaxSteps + 1)}
ValidateShapes == UNION {[1..n -> Servers \X DependencyChoices] : n \in 0..MaxSteps}
ValidateSteps(shape) ==
    [i \in 1..Len(shape) |->
        [OrchestrationStep(i, shape[i][1], NoneGroup) EXCEPT !.dependencies = shape[i][2]]]

\* The plan made of the step list, the estimated cost and the budget held in
\* the state.
HeldPlan == [steps |-> steps, estimated_cost |-> run.estimated_cost,
             budget |-> run.budget]

InitValidate ==
    /\ chains = <<>>
    /\ clock = 0
    /\ last = NoLast
    /\ doc = <<>>
    /\ tampered = FALSE
    /\ registry \in SUBSET Servers
    /\ max_retries = 0
    /\ pc = "idle"
    /\ \E est \in Estimates, b \in Budgets :
            run = [NoRun EXCEPT !.estimated_cost = est, !.budget = b]
    /\ \E shape \in ValidateShapes : steps = ValidateSteps(shape)
    /\ tasks = <<>>
    /\ result = NoResult
    /\ protocol = ProtocolHandler
    /\ executions = NoExecutions
    /\ IdleGovernance

\* A call of validate_plan on the held plan; result holds what it returned.
ValidatePlan ==
    /\ pc = "idle"
    /\ pc' = "done"
    /\ LET error == validate_plan(HeldPlan, registry)
       IN  result' = [NoResult EXCEPT !.status = IF error = "" THEN "valid"
                                                ELSE "invalid",
                                     !.error = error]
    /\ UNCHANGED <<ledgerVars, registry, max_retries, executions, run, steps, tasks,
                   protocol, govVars>>

NextValidate == ValidatePlan

\* validate_plan applied to every plan and registry within the bounds.
SpecValidate == InitValidate /\ [][NextValidate]_vars

\* ============================================================== governance
\* Budgets and total costs a sentinel sees, in hundredths: the small amounts
\* and 9.99, 10.00 and 12.00.
Amounts == 0..MaxAmount \cup {999, 1000, 1200}

\* The state snapshots check() is given: with or without a total_cost.
States ==
    {[domain |-> general]}
        \cup {[domain |-> general, total_cost |-> c] : c \in Amounts}

\* state.get(key, default)
Get(state, key, default) == IF key \in DOMAIN state THEN state[key] ELSE default

\* GovernanceAlert(level=CRITICAL, source=self.name, requires_action=True,
\* metadata={budget, spent, overage}); alert_id, message and timestamp, which
\* are texts made of the time and the amounts, are left out.
CostAlert(sentinel, current_cost) ==
    [level |-> "critical", source |-> sentinel.name, requires_action |-> TRUE,
     metadata |-> [budget |-> sentinel.budget, spent |-> current_cost,
                   overage |-> current_cost - sentinel.budget]]

at_or_over_budget(current_cost, budget) == current_cost >= budget

\* if current_cost > self.budget
OverBudget(current_cost, budget) == current_cost > budget

\* CostSentinel.check: the sentinel after the call and the value returned.
CostSentinel_check(sentinel, state) ==
    IF ~sentinel.enabled THEN [sentinel |-> sentinel, alert |-> NoAlert]
    ELSE LET current_cost == Get(state, "total_cost", 0)
             seen == [sentinel EXCEPT !.spent = current_cost]
             alert == CostAlert(sentinel, current_cost)
         IN  IF OverBudget(current_cost, sentinel.budget)
             THEN [sentinel |-> [seen EXCEPT !.alerts = Append(@, alert)],
                   alert |-> <<alert>>]
             ELSE [sentinel |-> seen, alert |-> NoAlert]

CostCheck ==
    \E state \in States :
        /\ Len(cost_sentinel.alerts) < MaxAlerts
        /\ cost_sentinel' = CostSentinel_check(cost_sentinel, state).sentinel
        /\ checked' = [op |-> "cost_check", state |-> state,
                       enabled |-> cost_sentinel.enabled,
                       budget |-> cost_sentinel.budget,
                       alert |-> CostSentinel_check(cost_sentinel, state).alert]
        /\ UNCHANGED <<ledgerVars, runVars, managerVars, guardian,
                       security_sentinel, validation_sentinel>>

Enable ==
    /\ cost_sentinel' = [cost_sentinel EXCEPT !.enabled = TRUE]
    /\ UNCHANGED <<ledgerVars, runVars, checked, managerVars, guardian,
                   security_sentinel, validation_sentinel>>

Disable ==
    /\ cost_sentinel' = [cost_sentinel EXCEPT !.enabled = FALSE]
    /\ UNCHANGED <<ledgerVars, runVars, checked, managerVars, guardian,
                   security_sentinel, validation_sentinel>>

UpdateBudget ==
    \E new_budget \in Amounts :
        /\ cost_sentinel' = [cost_sentinel EXCEPT !.budget = new_budget]
        /\ UNCHANGED <<ledgerVars, runVars, checked, managerVars, guardian,
                   security_sentinel, validation_sentinel>>

InitSentinel ==
    /\ chains = <<>>
    /\ clock = 0
    /\ last = NoLast
    /\ doc = <<>>
    /\ tampered = FALSE
    /\ registry = {}
    /\ max_retries = 0
    /\ pc = "idle"
    /\ run = NoRun
    /\ steps = <<>>
    /\ tasks = <<>>
    /\ result = NoResult
    /\ protocol = ProtocolHandler
    /\ executions = NoExecutions
    /\ \E budget \in Amounts : cost_sentinel = CostSentinel(budget)
    /\ checked = NoCheck
    /\ sentinel_manager = SentinelManager
    /\ returned = NoneReturned
    /\ guardian = CognitiveGuardian
    /\ security_sentinel = SecuritySentinel
    /\ validation_sentinel = ValidationSentinel(80)

NextSentinel ==
    \/ CostCheck
    \/ Enable
    \/ Disable
    \/ UpdateBudget

\* A CostSentinel asked about state snapshots, switched and re-budgeted.
SpecSentinel == InitSentinel /\ [][NextSentinel]_vars

\* ------------------------------------------------- the other two sentinels
Capitals == <<"A", "B", "C", "D", "E", "F", "G", "H", "I", "J", "K", "L", "M",
              "N", "O", "P", "Q", "R", "S", "T", "U", "V", "W", "X", "Y", "Z">>
Smalls == <<"a", "b", "c", "d", "e", "f", "g", "h", "i", "j", "k", "l", "m",
            "n", "o", "p", "q", "r", "s", "t", "u", "v", "w", "x", "y", "z">>

not_lowered(text) == text

\* str.lower()
lower(text) ==
    [i \in 1..Len(text) |->
        IF \E k \in 1..Len(Capitals) : Capitals[k] = text[i]
        THEN Smalls[CHOOSE k \in 1..Len(Capitals) : Capitals[k] = text[i]]
        ELSE text[i]]

\* keyword in text
In(keyword, text) ==
    \E i \in 0..(Len(text) - Len(keyword)) :
        SubSeq(text, i + 1, i + Len(keyword)) = keyword

\* for keyword in ["security", "safety", "health", "financial"]
Keywords == {security, safety, health, financial}

\* validation_results.values(), in the order of the dict, kept where the
\* entry is a dict whose severity is "critical".  An entry that is not a dict
\* (a text, a number) is written [value |-> ...].
IsDict(entry) == "value" \notin DOMAIN entry

failures_of_first_entry(results) ==
    IF results = <<>> THEN <<>>
    ELSE IF IsDict(Head(results))
            /\ Get(Head(results), "severity", "") = "critical"
    THEN <<Head(results)>>
    ELSE <<>>

RECURSIVE critical_failures(_)
critical_failures(results) ==
    IF results = <<>> THEN <<>>
    ELSE LET entry == Head(results)
             rest == critical_failures(Tail(results))
         IN  IF IsDict(entry) /\ Get(entry, "severity", "") = "critical"
             THEN <<entry>> \o rest
             ELSE rest

SecurityAlert(sentinel, failures) ==
    [level |-> "critical", source |-> sentinel.name, requires_action |-> TRUE,
     metadata |-> [failures |-> failures, count |-> Len(failures)]]

\* SecuritySentinel.check
SecuritySentinel_check(sentinel, state) ==
    IF ~sentinel.enabled THEN [sentinel |-> sentinel, alert |-> NoAlert]
    ELSE LET failures == critical_failures(Get(state, "validation_results", <<>>))
             alert == SecurityAlert(sentinel, failures)
         IN  IF failures # <<>>
             THEN [sentinel |-> [sentinel EXCEPT
                                    !.alerts = Append(@, alert),
                                    !.violations = @ \o failures],
                   alert |-> <<alert>>]
             ELSE [sentinel |-> sentinel, alert |-> NoAlert]

ValidationAlert(sentinel, domain, confidence) ==
    [level |-> "warning", source |-> sentinel.name, requires_action |-> TRUE,
     metadata |-> [domain |-> domain, confidence |-> confidence,
                   min_required |-> sentinel.min_confidence]]

\* any(keyword in domain.lower() for keyword in [...])
high_stakes(domain) == \E keyword \in Keywords : In(keyword, lower(domain))

\* ValidationSentinel.check
ValidationSentinel_check(sentinel, state) ==
    IF ~sentinel.enabled THEN [sentinel |-> sentinel, alert |-> NoAlert]
    ELSE LET domain == Get(state, "domain", <<>>)
             confidence == Get(state, "confidence", 0)
             alert == ValidationAlert(sentinel, domain, confidence)
         IN  IF ~high_stakes(domain)
             THEN [sentinel |-> sentinel, alert |-> NoAlert]
             ELSE IF confidence < sentinel.min_confidence
             THEN [sentinel |-> [sentinel EXCEPT !.alerts = Append(@, alert)],
                   alert |-> <<alert>>]
             ELSE [sentinel |-> sentinel, alert |-> NoAlert]

\* sentinel.check(state), by the class of the sentinel.
Sentinel_check(sentinel, state) ==
    IF sentinel.name = "cost_sentinel" THEN CostSentinel_check(sentinel, state)
    ELSE IF sentinel.name = "security_sentinel"
    THEN SecuritySentinel_check(sentinel, state)
    ELSE ValidationSentinel_check(sentinel, state)

\* -------------------------------------------------------- SentinelManager
\* The loop of check_all from sentinel i on: the sentinels after their
\* checks, the list to return and self.alerts.
RECURSIVE CheckFrom(_, _, _, _, _)
CheckFrom(sentinels, state, i, alerts, self_alerts) ==
    IF i > Len(sentinels)
    THEN [sentinels |-> sentinels, alerts |-> alerts, self_alerts |-> self_alerts]
    ELSE IF ~sentinels[i].enabled
    THEN CheckFrom(sentinels, state, i + 1, alerts, self_alerts)
    ELSE LET c == Sentinel_check(sentinels[i], state)
         IN  CheckFrom([sentinels EXCEPT ![i] = c.sentinel], state, i + 1,
                       alerts \o c.alert, self_alerts \o c.alert)

check_all_forgets(manager, state) ==
    LET c == CheckFrom(manager.sentinels, state, 1, <<>>, manager.alerts)
    IN  [manager |-> [sentinels |-> c.sentinels, alerts |-> manager.alerts],
         alerts |-> c.alerts]

\* SentinelManager.check_all: the manager after the call and the list returned.
check_all(manager, state) ==
    LET c == CheckFrom(manager.sentinels, state, 1, <<>>, manager.alerts)
    IN  [manager |-> [sentinels |-> c.sentinels, alerts |-> c.self_alerts],
         alerts |-> c.alerts]

\* SentinelManager.has_critical_alerts
has_critical_alerts(manager) ==
    \E i \in 1..Len(manager.alerts) : manager.alerts[i].level = "critical"

\* [s for s in self.sentinels if s.name != name]
RECURSIVE WithoutName(_, _)
WithoutName(sentinels, name) ==
    IF sentinels = <<>> THEN <<>>
    ELSE IF Head(sentinels).name = name THEN WithoutName(Tail(sentinels), name)
    ELSE <<Head(sentinels)>> \o WithoutName(Tail(sentinels), name)

\* The sentinels a caller constructs and the snapshots check_all is given.
NewSentinels == {CostSentinel(1), SecuritySentinel, ValidationSentinel(80)}
SentinelNames == {"cost_sentinel", "security_sentinel", "validation_sentinel"}

ManagerStates ==
    {[domain |-> general, total_cost |-> 0],
     [domain |-> general, total_cost |-> 2],
     [domain |-> security, confidence |-> 50,
      validation_results |-> <<[severity |-> "critical"]>>],
     [domain |-> health, confidence |-> 50, total_cost |-> 2]}

AddSentinel ==
    \E sentinel \in NewSentinels :
        /\ Len(sentinel_manager.sentinels) < MaxSentinels
        /\ sentinel_manager' =
               [sentinel_manager EXCEPT !.sentinels = Append(@, sentinel)]
        /\ UNCHANGED <<ledgerVars, runVars, sentinelVars, checked, returned, guardian>>

RemoveSentinel ==
    \E name \in SentinelNames :
        /\ sentinel_manager' =
               [sentinel_manager EXCEPT !.sentinels = WithoutName(@, name)]
        /\ UNCHANGED <<ledgerVars, runVars, sentinelVars, checked, returned, guardian>>

CheckAll ==
    \E state \in ManagerStates :
        LET c == check_all(sentinel_manager, state)
        IN  /\ Len(returned.all) + Len(sentinel_manager.sentinels) <= MaxReturned
            /\ sentinel_manager' = c.manager
            /\ returned' = [all |-> returned.all \o c.alerts,
                            since_clear |-> returned.since_clear \o c.alerts]
            /\ UNCHANGED <<ledgerVars, runVars, sentinelVars, checked, guardian>>

\* SentinelManager.clear_alerts
ClearAlerts ==
    /\ sentinel_manager' =
           [sentinels |-> [i \in 1..Len(sentinel_manager.sentinels) |->
                              [sentinel_manager.sentinels[i] EXCEPT !.alerts = <<>>]],
            alerts |-> <<>>]
    /\ returned' = [returned EXCEPT !.since_clear = <<>>]
    /\ UNCHANGED <<ledgerVars, runVars, sentinelVars, checked, guardian>>

\* sentinel.enable() and sentinel.disable() on a sentinel the manager holds.
EnableHeld ==
    \E i \in 1..Len(sentinel_manager.sentinels) :
        /\ sentinel_manager' =
               [sentinel_manager EXCEPT !.sentinels[i].enabled = TRUE]
        /\ UNCHANGED <<ledgerVars, runVars, sentinelVars, checked, returned, guardian>>

DisableHeld ==
    \E i \in 1..Len(sentinel_manager.sentinels) :
        /\ sentinel_manager' =
               [sentinel_manager EXCEPT !.sentinels[i].enabled = FALSE]
        /\ UNCHANGED <<ledgerVars, runVars, sentinelVars, checked, returned, guardian>>

InitManager ==
    /\ chains = <<>>
    /\ clock = 0
    /\ last = NoLast
    /\ doc = <<>>
    /\ tampered = FALSE
    /\ registry = {}
    /\ max_retries = 0
    /\ pc = "idle"
    /\ run = NoRun
    /\ steps = <<>>
    /\ tasks = <<>>
    /\ result = NoResult
    /\ protocol = ProtocolHandler
    /\ executions = NoExecutions
    /\ IdleGovernance

NextManager ==
    \/ AddSentinel
    \/ RemoveSentinel
    \/ CheckAll
    \/ ClearAlerts
    \/ EnableHeld
    \/ DisableHeld

\* A SentinelManager whose sentinels are added, removed, switched and asked.
SpecManager == InitManager /\ [][NextManager]_vars

\* ------------------------------------------ sentinels asked one at a time
\* The snapshots a SecuritySentinel is given: validation_results absent,
\* empty, or holding entries of these kinds (the dict is written as the
\* sequence of its values).
Entries ==
    {[severity |-> "critical"], [severity |-> "low"], [passed |-> "yes"],
     [value |-> "ok"]}
SecurityStates ==
    {[domain |-> general], [domain |-> general, validation_results |-> <<>>]}
        \cup {[domain |-> general, validation_results |-> <<e>>] : e \in Entries}
        \cup {[domain |-> general, validation_results |-> <<e, f>>] :
                  e \in Entries, f \in Entries}

SecurityCheck ==
    \E state \in SecurityStates :
        LET c == SecuritySentinel_check(security_sentinel, state)
        IN  /\ Len(security_sentinel.alerts) < MaxAlerts
            /\ security_sentinel' = c.sentinel
            /\ checked' = [op |-> "security_check", state |-> state,
                           enabled |-> security_sentinel.enabled,
                           budget |-> 0, alert |-> c.alert]
            /\ UNCHANGED <<ledgerVars, runVars, cost_sentinel,
                           validation_sentinel, managerVars, guardian>>

EnableSecurity ==
    /\ security_sentinel' = [security_sentinel EXCEPT !.enabled = TRUE]
    /\ UNCHANGED <<ledgerVars, runVars, cost_sentinel, validation_sentinel,
                   checked, managerVars, guardian>>

DisableSecurity ==
    /\ security_sentinel' = [security_sentinel EXCEPT !.enabled = FALSE]
    /\ UNCHANGED <<ledgerVars, runVars, cost_sentinel, validation_sentinel,
                   checked, managerVars, guardian>>

NextSecurity ==
    \/ SecurityCheck
    \/ EnableSecurity
    \/ DisableSecurity

\* A SecuritySentinel asked about snapshots and switched on and off.
SpecSecurity == InitManager /\ [][NextSecurity]_vars

\* The snapshots a ValidationSentinel is given: a domain or none, a
\* confidence (in hundredths) or none.
finance == <<"f", "i", "n", "a", "n", "c", "e">>
Safety == <<"S", "a", "f", "e", "t", "y">>
healthcare == health \o <<"c", "a", "r", "e">>
PUBLIC_HEALTH == <<"P", "U", "B", "L", "I", "C", "_", "H", "E", "A", "L", "T", "H">>
Domains ==
    {<<>>, general, security, Safety, health, healthcare, financial, finance,
     PUBLIC_HEALTH}
Confidences == {49, 50, 79, 80}
MinConfidences == {80, 50}
ValidationStates ==
    {[total_cost |-> 0], [confidence |-> 50]}
        \cup {[domain |-> d] : d \in Domains}
        \cup {[domain |-> d, confidence |-> c] : d \in Domains, c \in Confidences}

ValidationCheck ==
    \E state \in ValidationStates :
        LET c == ValidationSentinel_check(validation_sentinel, state)
        IN  /\ Len(validation_sentinel.alerts) < MaxAlerts
            /\ validation_sentinel' = c.sentinel
            /\ checked' = [op |-> "validation_check", state |-> state,
                           enabled |-> validation_sentinel.enabled,
                           budget |-> validation_sentinel.min_confidence,
                           alert |-> c.alert]
            /\ UNCHANGED <<ledgerVars, runVars, cost_sentinel,
                           security_sentinel, managerVars, guardian>>

EnableValidation ==
    /\ validation_sentinel' = [validation_sentinel EXCEPT !.enabled = TRUE]
    /\ UNCHANGED <<ledgerVars, runVars, cost_sentinel, security_sentinel,
                   checked, managerVars, guardian>>

DisableValidation ==
    /\ validation_sentinel' = [validation_sentinel EXCEPT !.enabled = FALSE]
    /\ UNCHANGED <<ledgerVars, runVars, cost_sentinel, security_sentinel,
                   checked, managerVars, guardian>>

InitValidation ==
    /\ chains = <<>>
    /\ clock = 0
    /\ last = NoLast
    /\ doc = <<>>
    /\ tampered = FALSE
    /\ registry = {}
    /\ max_retries = 0
    /\ pc = "idle"
    /\ run = NoRun
    /\ steps = <<>>
    /\ tasks = <<>>
    /\ result = NoResult
    /\ protocol = ProtocolHandler
    /\ executions = NoExecutions
    /\ cost_sentinel = CostSentinel(0)
    /\ checked = NoCheck
    /\ sentinel_manager = SentinelManager
    /\ returned = NoneReturned
    /\ guardian = CognitiveGuardian
    /\ security_sentinel = SecuritySentinel
    /\ \E m \in MinConfidences : validation_sentinel = ValidationSentinel(m)

NextValidation ==
    \/ ValidationCheck
    \/ EnableValidation
    \/ DisableValidation

\* A ValidationSentinel of either threshold asked about snapshots and
\* switched on and off.
SpecValidation == InitValidation /\ [][NextValidation]_vars

\* ------------------------------------------------------ CognitiveGuardian
\* self.profile.selection_patterns[decision_type] += 1, or = 1 the first time
Count(patterns, decision_type) ==
    [t \in DOMAIN patterns \cup {decision_type} |->
        IF t \in DOMAIN patterns
        THEN (IF t = decision_type THEN patterns[t] + 1 ELSE patterns[t])
        ELSE 1]

\* min(amount / 1000.0, 1.0)
normalized_amount(amount) == FracMin(Frac(amount, 1000), Frac(1, 1))

\* CognitiveGuardian._update_profile, alpha = 0.1
_update_profile(profile, decision_type, parameters) ==
    LET counted == [profile EXCEPT !.selection_patterns = Count(@, decision_type)]
    IN  IF decision_type = "budget_approval" /\ "amount" \in DOMAIN parameters
        THEN [counted EXCEPT !.risk_tolerance.averaged =
                 Append(@, normalized_amount(parameters.amount))]
        ELSE counted

\* CognitiveGuardian.record_decision (the timestamp of the record is left out)
record_decision(g, decision_type, parameters) ==
    [g EXCEPT !.history = Append(@, [decision_type |-> decision_type,
                                     parameters |-> parameters]),
              !.profile = _update_profile(@, decision_type, parameters)]

\* sum(1 for r in self.history if r["decision_type"] == decision_type)
historical_count(history, decision_type) ==
    Cardinality({i \in 1..Len(history) : history[i].decision_type = decision_type})

\* [r["parameters"].get("amount", 0) for r in self.history
\*      if r["decision_type"] == "budget_approval"]
RECURSIVE historical_amounts(_)
historical_amounts(history) ==
    IF history = <<>> THEN <<>>
    ELSE IF Head(history).decision_type = "budget_approval"
    THEN <<Get(Head(history).parameters, "amount", 0)>>
            \o historical_amounts(Tail(history))
    ELSE historical_amounts(Tail(history))

RECURSIVE SumOf(_)
SumOf(sq) == IF sq = <<>> THEN 0 ELSE Head(sq) + SumOf(Tail(sq))

RECURSIVE SumOfSquares(_)
SumOfSquares(sq) ==
    IF sq = <<>> THEN 0 ELSE Head(sq) * Head(sq) + SumOfSquares(Tail(sq))

\* CognitiveGuardian._calculate_deviation.  The value is the SQUARE of the
\* deviation the code returns, which keeps it a fraction: with n amounts of
\* sum S and sum of squares Q, mean = S/n, stdev^2 = (nQ - S^2)/(n(n-1)) for
\* n > 1 and stdev = mean * 0.1 for n = 1; "stdev > 0" is nQ - S^2 > 0,
\* respectively S > 0.
_calculate_deviation(history, decision_type, parameters) ==
    IF historical_count(history, decision_type) = 0 THEN Frac(9, 4)
    ELSE IF decision_type = "budget_approval" /\ "amount" \in DOMAIN parameters
    THEN LET amount == parameters.amount
             amounts == historical_amounts(history)
             n == Len(amounts)
             S == SumOf(amounts)
             Q == SumOfSquares(amounts)
         IN  IF amounts = <<>> THEN Frac(0, 1)
             ELSE IF n > 1
             THEN (IF n * Q - S * S > 0
                   THEN Frac((n * amount - S) * (n * amount - S) * (n - 1),
                             n * (n * Q - S * S))
                   ELSE Frac(0, 1))
             ELSE (IF S > 0
                   THEN Frac((amount - S) * (amount - S) * 100, S * S)
                   ELSE Frac(0, 1))
    ELSE Frac(0, 1)

enough_after_nine(history) == Len(history) >= 9

\* not (len(self.history) < 10)
EnoughHistory(history) == Len(history) >= 10

critical_at_four_sigma(deviation) == FracLeq(Frac(16, 1), deviation)

\* deviation >= 3.0 and deviation >= 2.0, on the square
IsCritical(deviation) == FracLeq(Frac(9, 1), deviation)
IsWarning(deviation) == FracLeq(Frac(4, 1), deviation)

\* GovernanceAlert(level, source="cognitive_guardian", requires_action,
\* metadata={decision_type, deviation, parameters}); alert_id, message and
\* timestamp are left out, as is the operator id.
GuardianAlert(level, requires_action, decision_type, deviation, parameters) ==
    [level |-> level, source |-> "cognitive_guardian",
     requires_action |-> requires_action,
     metadata |-> [decision_type |-> decision_type, deviation |-> deviation,
                   parameters |-> parameters]]

\* CognitiveGuardian.check_anomaly: the guardian after the call and the value
\* returned.
check_anomaly(g, decision_type, parameters) ==
    IF ~EnoughHistory(g.history) THEN [guardian |-> g, alert |-> NoAlert]
    ELSE LET deviation == _calculate_deviation(g.history, decision_type, parameters)
             critical == GuardianAlert("critical", TRUE, decision_type,
                                       deviation, parameters)
             warning == GuardianAlert("warning", FALSE, decision_type,
                                      deviation, parameters)
         IN  IF IsCritical(deviation)
             THEN [guardian |-> [g EXCEPT !.alerts = Append(@, critical)],
                   alert |-> <<critical>>]
             ELSE IF IsWarning(deviation)
             THEN [guardian |-> [g EXCEPT !.alerts = Append(@, warning)],
                   alert |-> <<warning>>]
             ELSE [guardian |-> g, alert |-> NoAlert]

\* CognitiveGuardian.reset_baseline
reset_baseline(g) ==
    [g EXCEPT !.history = <<>>,
              !.profile = [@ EXCEPT !.selection_patterns = NoPatterns,
                                    !.risk_tolerance =
                                        [start |-> Frac(1, 2), averaged |-> <<>>],
                                    !.baseline_deviation = 0]]

\* The decisions an operator takes.
Approval(amount) ==
    [decision_type |-> "budget_approval", parameters |-> [amount |-> amount]]
Selection ==
    [decision_type |-> "template_selection", parameters |-> [template |-> 1]]
Unpriced ==
    [decision_type |-> "budget_approval", parameters |-> [reason |-> 1]]
Deployment ==
    [decision_type |-> "deployment", parameters |-> [amount |-> 500]]

\* Decisions that build a baseline around 100, the decisions asked about,
\* and the decisions under which the profile is followed.
BaselineDecisions == {Approval(90), Approval(110), Selection}
CheckInputs ==
    {Approval(a) : a \in {100, 110, 125, 135, 500}}
        \cup {Selection, Unpriced, Deployment}
ProfileDecisions ==
    {Approval(a) : a \in {-5000, 0, 500, 2000}} \cup {Selection, Unpriced}

RecordDecision(decisions, max_history) ==
    \E d \in decisions :
        /\ Len(guardian.history) < max_history
        /\ guardian' = record_decision(guardian, d.decision_type, d.parameters)
        /\ checked' = [op |-> "record_decision",
                       decision_type |-> d.decision_type,
                       parameters |-> d.parameters,
                       tolerance |-> guardian.profile.risk_tolerance,
                       alert |-> NoAlert]
        /\ UNCHANGED <<ledgerVars, runVars, sentinelVars, managerVars>>

CheckAnomaly ==
    \E d \in CheckInputs :
        LET c == check_anomaly(guardian, d.decision_type, d.parameters)
        IN  /\ guardian' = c.guardian
            /\ checked' = [op |-> "check_anomaly",
                           decision_type |-> d.decision_type,
                           parameters |-> d.parameters,
                           tolerance |-> guardian.profile.risk_tolerance,
                           alert |-> c.alert]
            /\ UNCHANGED <<ledgerVars, runVars, sentinelVars, managerVars>>

ResetBaseline ==
    /\ guardian' = reset_baseline(guardian)
    /\ checked' = [op |-> "reset_baseline", decision_type |-> "",
                   parameters |-> [reason |-> 0],
                   tolerance |-> guardian.profile.risk_tolerance,
                   alert |-> NoAlert]
    /\ UNCHANGED <<ledgerVars, runVars, sentinelVars, managerVars>>

\* A guardian that is fed a baseline and then asked one question.
NextGuardian ==
    \/ (checked.op # "check_anomaly"
            /\ RecordDecision(BaselineDecisions, MaxHistory))
    \/ (checked.op # "check_anomaly" /\ CheckAnomaly)

SpecGuardian == InitManager /\ [][NextGuardian]_vars

\* A guardian whose profile is followed over a few decisions of every kind.
NextProfile ==
    \/ RecordDecision(ProfileDecisions, MaxProfile)
    \/ CheckAnomaly
    \/ ResetBaseline

SpecProfile == InitManager /\ [][NextProfile]_vars

\* ================================================================= claims
RecordOps == {"record_intent", "record_plan", "record_step", "record_result",
              "record_synthesis"}

\* Position of the first node of the chain with the given id (0 when absent).
IndexOf(chain, id) ==
    IF \E k \in 1..Len(chain.nodes) : chain.nodes[k].node_id = id
    THEN CHOOSE k \in 1..Len(chain.nodes) :
            /\ chain.nodes[k].node_id = id
            /\ \A m \in 1..(k - 1) : chain.nodes[m].node_id # id
    ELSE 0

\* C1 (as claimed): after any sequence of create_session and record_* calls,
\* with any parent ids, verify_chain is true of every tracked session.
C1_VerifyAlwaysTrue == \A s \in DOMAIN chains : verify_chain(chains, s)

\* C2 (as claimed): a record_* call on a tracked session that passes a parent
\* id which is no id of a node of the chain fails with DanglingParent, and so
\* every parent id stored in a chain is the id of a node inserted earlier in it.
C2_DanglingParentRejected ==
    /\ (last.op \in RecordOps /\ last.raised # "SessionNotFound" /\ ~last.pre)
            => last.raised = "DanglingParent"
    /\ \A s \in DOMAIN chains :
       \A i \in 1..Len(chains[s].nodes) :
       \A j \in 1..Len(chains[s].nodes[i].parent_ids) :
            LET k == IndexOf(chains[s], chains[s].nodes[i].parent_ids[j])
            IN  k # 0 /\ k < i

\* Every parent of every node of the lineage stands before the node, and the
\* first node is the genesis node.
ParentsFirst(lin) ==
    /\ lin # <<>>
    /\ lin[1].node_type = "genesis"
    /\ \A p \in 1..Len(lin) :
       \A j \in 1..Len(lin[p].parent_ids) :
       \E q \in 1..(p - 1) : lin[q].node_id = lin[p].parent_ids[j]

\* Every parent id of the chain exists in it and every node but the genesis
\* node has a parent.
WellFormed(chs, s) ==
    /\ verify_chain(chs, s)
    /\ \A i \in 2..Len(chs[s].nodes) : chs[s].nodes[i].parent_ids # <<>>

\* C5 (as claimed): in a chain built by create_session and appends whose
\* parents exist, the lineage of every node lists the parents of each node
\* before the node, and the genesis node first.
C5_LineageParentsFirst ==
    \A s \in DOMAIN chains :
        WellFormed(chains, s) =>
            \A i \in 1..Len(chains[s].nodes) :
                ParentsFirst(get_node_lineage(chains, s, chains[s].nodes[i].node_id))

\* C6: import_chain of a document with one stored hash altered returns false
\* and leaves no entry for the document's session id.
C6_AlteredImportRejected ==
    (last.op = "import_chain" /\ last.altered)
        => (~last.ok /\ last.sid \notin DOMAIN chains)

C6_Witness ==
    /\ last.op = "import_chain"
    /\ last.altered
    /\ ~last.ok
    /\ doc # <<>>
    /\ Len(doc[1].nodes) >= 2
    /\ verify_chain(import_chain(chains, doc[1]).chains, doc[1].session_id)

\* C7: after one field of the data of a node of a verified chain was changed,
\* the stored hash left alone, verify_chain is false.
C7_DataTamperDetected ==
    (last.op = "tamper_data" /\ last.pre) => ~verify_chain(chains, last.sid)

C7_Witness ==
    /\ last.op = "tamper_data"
    /\ last.pre
    /\ last.node.uid # 0
    /\ Len(chains[last.sid].nodes) >= 2

\* C8: after a node that another node lists as a parent was removed from a
\* verified chain, or given another id, verify_chain is false.
C8_RemovedParentDetected ==
    (last.op \in {"delete_node", "rename_node"} /\ last.pre /\ last.referenced)
        => ~verify_chain(chains, last.sid)

C8_Witness ==
    /\ last.op = "delete_node"
    /\ last.pre
    /\ last.referenced
    /\ last.node.uid # 0

\* ---- claims about a run
GroupOf(i) == CHOOSE g \in 1..Len(run.groups) : i \in Members(run.groups[g])

NodesOf(type, i) ==
    {k \in 1..Len(chains[run.session].nodes) :
        /\ chains[run.session].nodes[k].node_type = type
        /\ chains[run.session].nodes[k].data.step_id = steps[i].step_id}

Started(i) == tasks[i].st \notin {"new", "pending"} \/ NodesOf("step", i) # {}

\* C3: no step of a group has started (left its step node, issued a call)
\* while a step of an earlier group is unsettled.
C3_BarrierBetweenGroups ==
    (pc # "idle" /\ run.groups # <<>>) =>
        \A i, j \in 1..Len(tasks) :
            (GroupOf(j) < GroupOf(i) /\ Started(i)) => Settled(tasks, j)

\* Steps 1 and 2 share the first group, step 2 settled before step 1, one of
\* them by failure, and step 3 of the second group has started.
C3_Witness ==
    /\ pc = "running"
    /\ Len(run.groups) = 2
    /\ run.groups[1] = <<1, 2>>
    /\ tasks[3].st = "awaiting"
    /\ tasks[1].st = "returned" /\ tasks[1].response.error = ""
    /\ tasks[2].st = "returned" /\ tasks[2].response.error # ""
    /\ \E a \in NodesOf("result", 1) : \E b \in NodesOf("result", 2) : b < a

\* execute_async is over and _execute_plan returned: no call failed
\* unexpectedly.
RunReturned == pc = "done" /\ run.groups # <<>> /\ run.fault = "none"

RECURSIVE SumReturned(_)
SumReturned(k) ==
    IF k = 0 THEN 0
    ELSE SumReturned(k - 1)
         + (IF tasks[k].st = "returned" THEN tasks[k].response.cost ELSE 0)

\* C4 (as claimed): after a run compute_session_cost is the sum of the costs
\* the invocations of the recorded steps returned.
C4_SessionCostIsSumOfStepCosts ==
    RunReturned =>
        compute_session_cost(chains, run.session) = SumReturned(Len(tasks))

\* The step's execution raised, or send_request returned the error Response
\* it builds when its last attempt failed.
EndedInError(i) ==
    \/ tasks[i].st = "raised"
    \/ /\ tasks[i].st = "returned"
       /\ tasks[i].calls = max_retries
       /\ tasks[i].response = ErrorResponse("request failed")

\* C9 (as claimed): after a run a step whose invocation succeeded is completed
\* and a step whose invocation ended in error, by raising or by an error
\* Response after the last retry, is failed.
C9_StatusReflectsOutcome ==
    RunReturned =>
        \A i \in 1..Len(tasks) :
            /\ (tasks[i].st = "returned" /\ tasks[i].response.error = "")
                    => steps[i].status = "completed"
            /\ EndedInError(i) => steps[i].status = "failed"

\* C10: a run of a validated plan returns with every step given a status; a
\* step whose own server lookup did not fail (the registry only shrinks, so
\* a server registered at the end was registered all along) was invoked and
\* left a step node and a result node, whatever its siblings did.
C10_SiblingsUnaffected ==
    RunReturned =>
        /\ result.status = "completed"
        /\ \A i \in 1..Len(tasks) :
            /\ steps[i].status \in {"completed", "failed"}
            /\ Settled(tasks, i)
            /\ steps[i].server_name \in registry =>
                /\ tasks[i].st = "returned"
                /\ max_retries > 0 => tasks[i].calls >= 1
                /\ Cardinality(NodesOf("step", i)) = 1
                /\ Cardinality(NodesOf("result", i)) = 1

\* Step 1 raised, its sibling step 2 returned a result, and step 3 of the
\* following group ran.
C10_Witness ==
    /\ pc = "done"
    /\ Len(run.groups) = 2
    /\ run.groups[1] = <<1, 2>>
    /\ tasks[1].st = "raised" /\ steps[1].status = "failed"
    /\ tasks[2].st = "returned" /\ tasks[2].response.error = ""
    /\ steps[2].status = "completed"
    /\ tasks[3].st = "returned" /\ steps[3].status = "completed"
    /\ NodesOf("result", 2) # {} /\ NodesOf("result", 3) # {}

\* ---- claims about send_request
\* send_request returned after each of the attempts it made had failed.
Exhausted(i) == tasks[i].st = "returned" /\ tasks[i].failures = tasks[i].calls

\* The waits 2**0, 2**1, ... between n + 1 attempts.
Backoff(n) == [k \in 1..n |-> 2 ^ (k - 1)]

\* The attempts and the waits of a send_request whose attempts all failed.
AttemptsAndWaits(i) ==
    /\ tasks[i].calls = max_retries
    /\ tasks[i].waits = Backoff(max_retries - 1)
    /\ \A k \in 2..Len(tasks[i].waits) : tasks[i].waits[k - 1] < tasks[i].waits[k]
    /\ tasks[i].response.cost = 0

\* C11 (as claimed): a send_request whose every attempt failed made exactly
\* max_retries attempts, waited 2**attempt between them, and returned a
\* Response of cost 0 with a non-empty error, not an exception.
C11_ExhaustedRetriesReportError ==
    \A i \in 1..Len(tasks) :
        Exhausted(i) => (AttemptsAndWaits(i) /\ tasks[i].response.error # "")

\* ---- claims about validation
ValidationErrors == {"BudgetExceeded", "UnknownCapability", "DanglingDependency"}

\* C12 (as claimed): when validate_plan rejected the plan, the execution has,
\* as it returns the failed result, created no session and no node in the
\* ledger (which was empty before it), invoked no capability and changed no
\* step status.
C12_RejectedPlanLeavesNoTrace ==
    (pc = "done" /\ result.status = "failed" /\ result.error \in ValidationErrors) =>
        /\ chains = <<>>
        /\ \A i \in 1..Len(tasks) : tasks[i].st = "new" /\ tasks[i].calls = 0
        /\ \A i \in 1..Len(steps) : steps[i].status = "pending"

\* ---- claims about sessions
\* The step is a call of create_session; a call of one of the record_* methods.
IsCreateSession == clock' = clock + 1 /\ last'.op = "create_session"
IsRecord == clock' = clock + 1 /\ last'.op \in RecordOps

\* C13 (as claimed): create_session with the id of a tracked session fails
\* with SessionCollision and leaves every chain, that session's included, as
\* it was.
C13_CollisionRejected ==
    [][(IsCreateSession /\ last'.sid \in DOMAIN chains)
            => (last'.raised = "SessionCollision" /\ chains' = chains)]_vars

\* C14: a record_intent, record_plan, record_step, record_result or
\* record_synthesis call on a session id that is not tracked raises the
\* session-not-found error, creates no session and changes no chain.
C14_UntrackedSessionRejected ==
    [][(IsRecord /\ last'.sid \notin DOMAIN chains)
            => (last'.raised = "SessionNotFound" /\ chains' = chains)]_vars

\* record_synthesis was refused on an untracked session while another
\* session, with more than its genesis node, is tracked.
C14_Witness ==
    /\ last.op = "record_synthesis"
    /\ last.raised = "SessionNotFound"
    /\ last.sid \notin DOMAIN chains
    /\ \E s \in DOMAIN chains : Len(chains[s].nodes) >= 2

\* C15 (as claimed): in every state, the root_hash of every tracked chain,
\* created by create_session or accepted by import_chain, is the stored hash
\* of the chain's first node (read here of the chains that have a node).
C15_RootHashIsFirstHash ==
    \A s \in DOMAIN chains :
        chains[s].nodes # <<>> => chains[s].root_hash = chains[s].nodes[1].hash

\* ---- claims about the grouping of a plan
RECURSIVE Concat(_, _)
Concat(groups, k) == IF k = 0 THEN <<>> ELSE Concat(groups, k - 1) \o groups[k]

GroupValue(group) == steps[group[1]].parallel_group

UnknownServer(plan, reg) ==
    \E i \in 1..Len(plan.steps) : plan.steps[i].server_name \notin reg

DanglingDependency(plan) ==
    \E i \in 1..Len(plan.steps) : \E d \in plan.steps[i].dependencies :
        \A j \in 1..Len(plan.steps) : plan.steps[j].step_id # d

\* C17 (as claimed): validate_plan rejects for budget a plan that carries a
\* budget and estimates a cost above it, whatever else is wrong; else rejects
\* for unknown capability a plan with a step on an unregistered server; else
\* rejects for dangling dependency a plan with a dependency id of no step;
\* else returns (True, None).
C17_FirstFailureWins ==
    pc = "done" =>
        result.error =
            IF HeldPlan.budget # NoBudget /\ HeldPlan.estimated_cost > HeldPlan.budget
            THEN "BudgetExceeded"
            ELSE IF UnknownServer(HeldPlan, registry) THEN "UnknownCapability"
            ELSE IF DanglingDependency(HeldPlan) THEN "DanglingDependency"
            ELSE ""

\* ---- claims about step statuses
\* C18: in every step of an execution each step status is pending, completed
\* or failed (never cancelled, never in_progress); a status that changes
\* changes from pending to completed or failed, so a completed or failed
\* step keeps its status; and when the run of a validated plan has returned
\* every step is completed or failed.
C18_StatusTransitions ==
    [][\A i \in 1..Len(steps') :
          /\ steps'[i].status \in {"pending", "completed", "failed"}
          /\ (i <= Len(steps) /\ steps'[i].status # steps[i].status)
                => (steps[i].status = "pending"
                      /\ steps'[i].status \in {"completed", "failed"})
          /\ (pc' = "done" /\ run'.plan_node # NoSuchId /\ run'.fault = "none")
                => steps'[i].status \in {"completed", "failed"}]_vars

\* A run of two groups has returned with a failed and a completed step in
\* its first group and a failed step in its second.
C18_Witness ==
    /\ pc = "done"
    /\ Len(run.groups) = 2
    /\ run.groups[1] = <<1, 2>>
    /\ steps[1].status = "completed"
    /\ steps[2].status = "failed"
    /\ steps[3].status = "failed"

\* ---- claims about export and import
\* The chain a document describes verifies.
DocumentVerifies(d) ==
    verify_chain(Put(<<>>, d.session_id, ParseChain(d)), d.session_id)

C20_CostSentinelAlerts ==
    (checked.op = "cost_check" /\ checked.enabled
            /\ "total_cost" \in DOMAIN checked.state) =>
        IF checked.state.total_cost > checked.budget
        THEN /\ checked.alert # NoAlert
             /\ checked.alert[1].level = "critical"
             /\ checked.alert[1].metadata.overage
                    = checked.state.total_cost - checked.budget
        ELSE checked.alert = NoAlert

\* Budget 10.00: the check at 12.00 returned a CRITICAL alert with overage
\* 2.00, the only alert the sentinel holds.
C20_Witness ==
    /\ checked.op = "cost_check"
    /\ checked.enabled
    /\ checked.budget = 1000
    /\ checked.state = [domain |-> general, total_cost |-> 1200]
    /\ checked.alert # NoAlert
    /\ checked.alert[1].level = "critical"
    /\ checked.alert[1].metadata.overage = 200
    /\ cost_sentinel.alerts = checked.alert

\* ------------------------------------------------------------------- C21
\* C21 as stated: after any sequence of manager operations, clear_alerts
\* among them, has_critical_alerts() is true exactly when some alert that a
\* check_all call returned was CRITICAL, and the manager's alert history is
\* the concatenation, in call order, of the lists all check_all calls returned.
C21_HistoryIsAllReturned ==
    /\ has_critical_alerts(sentinel_manager)
           <=> \E i \in 1..Len(returned.all) : returned.all[i].level = "critical"
    /\ sentinel_manager.alerts = returned.all

\* C21 amended: the same of the check_all calls made since the last
\* clear_alerts call (or since construction): has_critical_alerts() is true
\* exactly when one of them returned a CRITICAL alert, and the history is the
\* concatenation, in call order, of the lists they returned.
C21_HistoryIsReturnedSinceClear ==
    /\ has_critical_alerts(sentinel_manager)
           <=> \E i \in 1..Len(returned.since_clear) :
                   returned.since_clear[i].level = "critical"
    /\ sentinel_manager.alerts = returned.since_clear

\* Two check_all calls after a clear_alerts: the history holds a critical and
\* a warning alert of the later calls and none of the earlier ones.
C21_Witness ==
    /\ Len(returned.all) > Len(returned.since_clear)
    /\ Len(returned.since_clear) >= 2
    /\ sentinel_manager.alerts = returned.since_clear
    /\ has_critical_alerts(sentinel_manager)
    /\ \E i \in 1..Len(sentinel_manager.alerts) :
           sentinel_manager.alerts[i].level = "warning"

\* ------------------------------------------------------------------- C22
\* C22: check_anomaly returns no alert and records no alert whenever fewer
\* than 10 decisions are in the history, for every decision type and every
\* parameter value it is asked about.
C22_NoAlertBeforeTenDecisions ==
    (checked.op = "check_anomaly" /\ Len(guardian.history) < 10) =>
        /\ checked.alert = NoAlert
        /\ guardian.alerts = <<>>

\* A guardian asked about an approval of 500 after nine decisions.
C22_Witness ==
    /\ checked.op = "check_anomaly"
    /\ Len(guardian.history) = 9
    /\ checked.decision_type = "budget_approval"
    /\ checked.parameters = [amount |-> 500]
    /\ checked.alert = NoAlert

\* ------------------------------------------------------------------- C23
\* The budget_approval amounts of a history, oldest first.
RECURSIVE PastAmounts(_)
PastAmounts(history) ==
    IF history = <<>> THEN <<>>
    ELSE IF Head(history).decision_type = "budget_approval"
    THEN <<Head(history).parameters.amount>> \o PastAmounts(Tail(history))
    ELSE PastAmounts(Tail(history))

\* n(n-1) times the sample variance of n amounts of sum S and sum of squares
\* Q, and |a - mean| / stdev >= k written without division or root:
\* (n a - S)^2 (n - 1) >= k^2 n (n Q - S^2).
Spread(n, S, Q) == n * Q - S * S
DeviatesBy(n, S, Q, a, k) ==
    (n * a - S) * (n * a - S) * (n - 1) >= k * k * n * Spread(n, S, Q)

\* C23: with at least 10 recorded decisions, of which at least two are
\* budget approvals whose amounts differ (so that mean and stdev exist and
\* stdev > 0), check_anomaly for a budget_approval of amount a returns a
\* CRITICAL alert with requires_action true when |a - mean| / stdev >= 3, a
\* WARNING alert when it is at least 2 and below 3, and no alert when it is
\* below 2.
C23_ThresholdsOfDeviation ==
    (/\ checked.op = "check_anomaly"
     /\ Len(guardian.history) >= 10
     /\ checked.decision_type = "budget_approval"
     /\ "amount" \in DOMAIN checked.parameters) =>
        LET a == checked.parameters.amount
            past == PastAmounts(guardian.history)
            n == Len(past)
            S == SumOf(past)
            Q == SumOfSquares(past)
            critical == DeviatesBy(n, S, Q, a, 3)
            warning == DeviatesBy(n, S, Q, a, 2)
        IN  (n >= 2 /\ Spread(n, S, Q) > 0) =>
                /\ critical =>
                    /\ checked.alert # NoAlert
                    /\ checked.alert[1].level = "critical"
                    /\ checked.alert[1].requires_action
                    /\ guardian.alerts = checked.alert
                /\ (warning /\ ~critical) =>
                    /\ checked.alert # NoAlert
                    /\ checked.alert[1].level = "warning"
                    /\ guardian.alerts = checked.alert
                /\ ~warning =>
                    /\ checked.alert = NoAlert
                    /\ guardian.alerts = <<>>

\* Ten budget approvals, five of 90 and five of 110 (mean 100, sample stdev
\* about 10.5), then the question about an amount of 500: a CRITICAL alert.
C23_Witness ==
    /\ checked.op = "check_anomaly"
    /\ Len(guardian.history) = 10
    /\ Len(PastAmounts(guardian.history)) = 10
    /\ SumOf(PastAmounts(guardian.history)) = 1000
    /\ checked.decision_type = "budget_approval"
    /\ checked.parameters = [amount |-> 500]
    /\ checked.alert # NoAlert
    /\ checked.alert[1].level = "critical"
    /\ checked.alert[1].requires_action

\* ------------------------------------------------------------------- C24
\* amount / 1000 clamped to [0, 1]
Clamped(amount) ==
    IF amount <= 0 THEN Frac(0, 1)
    ELSE IF amount >= 1000 THEN Frac(1, 1)
    ELSE Frac(amount, 1000)

\* C24: after any sequence of record_decision and reset_baseline calls with
\* any amounts, zero and negative ones among them, the risk tolerance of the
\* profile lies in [0, 1]; a budget_approval decision with an amount replaces
\* it by 0.9 times the old value plus 0.1 times amount/1000 clamped to [0, 1],
\* and every other decision leaves it unchanged.
C24_RiskToleranceInUnitInterval ==
    LET now == Tolerance(guardian.profile.risk_tolerance)
        before == Tolerance(checked.tolerance)
    IN  /\ FracLeq(Frac(0, 1), now)
        /\ FracLeq(now, Frac(1, 1))
        /\ checked.op = "record_decision" =>
               IF checked.decision_type = "budget_approval"
                      /\ "amount" \in DOMAIN checked.parameters
               THEN now = FracAdd(FracMul(Frac(9, 10), before),
                                  FracMul(Frac(1, 10),
                                          Clamped(checked.parameters.amount)))
               ELSE now = before

\* ------------------------------------------------------------------- C25
\* An entry of validation_results that carries severity "critical".
CarriesCritical(state) ==
    /\ "validation_results" \in DOMAIN state
    /\ \E i \in 1..Len(state.validation_results) :
           /\ "severity" \in DOMAIN state.validation_results[i]
           /\ state.validation_results[i].severity = "critical"

\* C25: an enabled SecuritySentinel.check(state) returns a CRITICAL alert if
\* and only if at least one entry of validation_results carries severity
\* "critical"; it returns no alert when validation_results is absent, empty
\* or holds only non-critical entries.
C25_SecurityAlertIffCritical ==
    (checked.op = "security_check" /\ checked.enabled) =>
        IF CarriesCritical(checked.state)
        THEN /\ checked.alert # NoAlert
             /\ checked.alert[1].level = "critical"
        ELSE checked.alert = NoAlert

\* An enabled sentinel given a non-critical and a critical entry returned a
\* CRITICAL alert that counts one failure.
C25_Witness ==
    /\ checked.op = "security_check"
    /\ checked.enabled
    /\ checked.state = [domain |-> general,
                        validation_results |-> <<[severity |-> "low"],
                                                 [severity |-> "critical"]>>]
    /\ checked.alert # NoAlert
    /\ checked.alert[1].level = "critical"
    /\ checked.alert[1].metadata.count = 1

\* ------------------------------------------------------------------- C26
\* The domains given that match a high-stakes keyword.
HighStakesDomains ==
    {security, Safety, health, healthcare, financial, PUBLIC_HEALTH}

\* C26: an enabled ValidationSentinel(min_confidence).check(state) returns a
\* WARNING alert if and only if the domain of the state matches one of the
\* keywords security, safety, health, financial and the confidence of the
\* state (0.0 when the state has none) is strictly below min_confidence; a
\* state outside the high-stakes domains never alerts, whatever its
\* confidence.
C26_ValidationAlertIffLowConfidence ==
    (checked.op = "validation_check" /\ checked.enabled) =>
        LET state == checked.state
            matches == "domain" \in DOMAIN state
                           /\ state.domain \in HighStakesDomains
            confidence == IF "confidence" \in DOMAIN state
                          THEN state.confidence ELSE 0
        IN  IF matches /\ confidence < checked.budget
            THEN /\ checked.alert # NoAlert
                 /\ checked.alert[1].level = "warning"
            ELSE checked.alert = NoAlert

\* A sentinel of the default threshold 0.80 given a health domain at
\* confidence 0.79 returned a WARNING alert.
C26_Witness ==
    /\ checked.op = "validation_check"
    /\ checked.enabled
    /\ checked.budget = 80
    /\ checked.state = [domain |-> healthcare, confidence |-> 79]
    /\ checked.alert # NoAlert
    /\ checked.alert[1].level = "warning"

\* -------------------------------------------------- execute_async's result
\* The plan passed validation and execute_async returned what _execute_plan
\* gave it.
ValidatedRunReturned ==
    pc = "done" /\ run.plan_node # NoSuchId /\ run.fault = "none"

NotRaised == {i \in 1..Len(tasks) : tasks[i].st # "raised"}

\* C27: an execution whose plan passed validation and whose run returned has
\* overall status completed whatever the statuses of its steps, and its
\* deliverables hold an entry for exactly the steps that did not raise.
C27_CompletedWithPartialDeliverables ==
    ValidatedRunReturned =>
        /\ result.status = "completed"
        /\ DOMAIN result.deliverables = {steps[i].step_id : i \in NotRaised}

\* A run of three steps returned completed: step 1 raised and is failed,
\* step 2 returned the error Response of its last retry and is completed,
\* step 3 succeeded; the deliverables hold steps 2 and 3 only.
C27_Witness ==
    /\ ValidatedRunReturned
    /\ Len(tasks) = 3
    /\ tasks[1].st = "raised" /\ steps[1].status = "failed"
    /\ tasks[2].st = "returned" /\ tasks[2].response.error # ""
    /\ tasks[3].st = "returned" /\ tasks[3].response.error = ""
    /\ result.status = "completed"
    /\ DOMAIN result.deliverables = {steps[2].step_id, steps[3].step_id}

\* A call of execute_async made after the session was created failed
\* unexpectedly, and execute_async is over.
FailedAfterSession ==
    pc = "done" /\ run.fault \in (StartFaults \cup RunFaults) \ {"create_session"}

\* C28: an unexpected failure of any call execute_async makes after the
\* session was created (parse_intent, record_intent, generate_plan,
\* validate_plan, record_plan, entering the protocol handler, _execute_plan,
\* building the result) ends execute_async with a returned result of status
\* failed whose error is the failure's message; execute_async does not raise.
C28_FailureBecomesFailedResult ==
    FailedAfterSession =>
        /\ result.status = "failed"
        /\ result.error = run.message
        /\ result.error # ""

\* _execute_plan failed unexpectedly after a group of two steps had run, and
\* execute_async returned the failed result that carries the message.
C28_Witness ==
    /\ pc = "done"
    /\ run.fault = "execute_plan"
    /\ run.message = "request failed"
    /\ Len(tasks) >= 2
    /\ \A i \in 1..2 : tasks[i].st = "returned"
    /\ result.status = "failed"
    /\ result.error = "request failed"

\* ------------------------------------------------------ the transport handle
\* C29 (as claimed): the handle an execution acquired is the only one its
\* requests are posted on, no request is posted on a closed handle, the
\* handle of an execution that ended is closed, and when no execution is
\* inside `async with` no handle is open.
C29_HandleScopedToExecution ==
    /\ \A e \in Executions :
        /\ executions[e].used \subseteq {executions[e].acquired}
        /\ ~executions[e].on_closed
        /\ executions[e].pc = "done" => executions[e].acquired \notin protocol.open
    /\ (\A e \in Executions : executions[e].pc # "inside") => protocol.open = {}

\* ------------------------------------------- appends of one parallel group
\* C30: whatever the order in which the steps of a group take their turns,
\* at every point where a reader may run every node created so far is in
\* the chain with its hash, its parents and the root hash in place
\* (verify_chain is true), there is one step node for each step that
\* reached the ledger and none for the others, and one result node for each
\* step whose invocation returned and none for the others.
C30_AppendsExactlyOnce ==
    (pc # "idle" /\ run.session \in DOMAIN chains) =>
        /\ Len(chains[run.session].nodes) = clock
        /\ verify_chain(chains, run.session)
        /\ \A i \in 1..Len(tasks) :
            /\ Cardinality(NodesOf("step", i))
                    = IF tasks[i].step_node # NoSuchId THEN 1 ELSE 0
            /\ Cardinality(NodesOf("result", i))
                    = IF tasks[i].st = "returned" THEN 1 ELSE 0

\* Steps 1 and 2 ran in one group, both returned, and the result of step 2
\* was appended before the result of step 1; the chain holds the genesis,
\* intent and plan nodes and the step and result nodes of every step.
C30_Witness ==
    /\ ValidatedRunReturned
    /\ Len(tasks) >= 2
    /\ GroupOf(1) = GroupOf(2)
    /\ tasks[1].st = "returned" /\ tasks[2].st = "returned"
    /\ \E a \in NodesOf("result", 1), b \in NodesOf("result", 2) : b < a
    /\ Len(chains[run.session].nodes) = 3 + 2 * Len(tasks)

\* ------------------------------------------------------ chains only grow
IsPrefix(a, b) == Len(a) <= Len(b) /\ \A i \in 1..Len(a) : a[i] = b[i]

\* C31 (as claimed): a ledger operation leaves every tracked chain tracked
\* and its nodes, each one unchanged, as a prefix of its new nodes; an append
\* that succeeded made exactly one chain exactly one node longer.
C31_ChainsOnlyGrow ==
    [][/\ \A s \in DOMAIN chains :
            /\ s \in DOMAIN chains'
            /\ IsPrefix(chains[s].nodes, chains'[s].nodes)
       /\ (last'.op \in RecordOps /\ last'.ok) =>
            \E s \in DOMAIN chains :
                /\ Len(chains'[s].nodes) = Len(chains[s].nodes) + 1
                /\ \A x \in DOMAIN chains \ {s} : chains'[x] = chains[x]]_vars

\* ------------------------------------------------ order of a run's nodes
NodesOfStep(i) == NodesOf("step", i) \cup NodesOf("result", i)

\* C32: in the chain of a run every step node and result node of a step of
\* an earlier group stands before every step node of a step of a later
\* group (so of the next group); between the nodes of two steps of one
\* group no order is required.
C32_GroupsInChainOrder ==
    (pc # "idle" /\ run.groups # <<>>) =>
        \A i, j \in 1..Len(tasks) :
            GroupOf(i) < GroupOf(j) =>
                \A a \in NodesOfStep(i), b \in NodesOf("step", j) : a < b

\* Steps 1 and 2 ran in the first group and step 3 in the second: the result
\* of step 2 was appended before the result of step 1, and both before the
\* step node of step 3.
C32_Witness ==
    /\ ValidatedRunReturned
    /\ Len(tasks) = 3
    /\ GroupOf(1) = 1 /\ GroupOf(2) = 1 /\ GroupOf(3) = 2
    /\ \E a \in NodesOf("result", 1), b \in NodesOf("result", 2),
          c \in NodesOf("step", 3) : b < a /\ a < c

\* ------------------------------------------------ the two nodes of a step
\* Step i got past its server lookup: _execute_step recorded it.
Executed(i) == tasks[i].st \in {"awaiting", "sleeping", "returned"}

RunNode(k) == chains[run.session].nodes[k]

\* C33: a step that is executed has exactly one step node, whose only parent
\* is the plan node, from before its first invocation is issued; once its
\* invocation returned it has exactly one result node, which stands after
\* the step node and whose only parent is that step node; before that it
\* has no result node.
C33_StepNodeThenResultNode ==
    (pc # "idle" /\ run.groups # <<>>) =>
        \A i \in 1..Len(tasks) :
            /\ tasks[i].calls > 0 => Executed(i)
            /\ Executed(i) =>
                /\ Cardinality(NodesOf("step", i)) = 1
                /\ \A a \in NodesOf("step", i) :
                    /\ RunNode(a).node_id = tasks[i].step_node
                    /\ RunNode(a).parent_ids = <<run.plan_node>>
                    /\ \A b \in NodesOf("result", i) :
                        /\ a < b
                        /\ RunNode(b).parent_ids = <<RunNode(a).node_id>>
                /\ Cardinality(NodesOf("result", i))
                        = IF tasks[i].st = "returned" THEN 1 ELSE 0

\* Step 1 was invoked twice and returned: its step node, a child of the plan
\* node, is followed by its result node, a child of the step node.
C33_Witness ==
    /\ pc # "idle" /\ run.groups # <<>>
    /\ tasks[1].st = "returned" /\ tasks[1].calls = 2
    /\ \E a \in NodesOf("step", 1), b \in NodesOf("result", 1) :
        /\ a < b
        /\ RunNode(a).parent_ids = <<run.plan_node>>
        /\ RunNode(b).parent_ids = <<RunNode(a).node_id>>

\* ------------------------------------------------------- reads are reads
ReadOps == {"verify_chain", "get_node_lineage", "compute_session_cost"}

\* C34: verify_chain, get_node_lineage and compute_session_cost leave the
\* tracked sessions and every chain (its nodes, its root_hash) as they were,
\* on a valid chain, on a chain modified from outside and on an unknown
\* session; a verification that fails repairs nothing.
C34_ReadsChangeNothing ==
    [][last'.op \in ReadOps => chains' = chains]_vars

\* verify_chain returned False on a chain that had been modified from
\* outside, and the chain is still there and still fails verification.
C34_Witness ==
    /\ last.op = "verify_chain"
    /\ tampered
    /\ ~last.returned
    /\ last.sid \in DOMAIN chains
    /\ ~verify_chain(chains, last.sid)

\* ------------------------------------------------------ the cost of a run
RECURSIVE SumResultNodes(_, _)
SumResultNodes(nodes, k) ==
    IF k = 0 THEN 0
    ELSE SumResultNodes(nodes, k - 1)
         + (IF nodes[k].node_type = "result" THEN nodes[k].data.cost ELSE 0)

\* C38: the cost a returned run reports is the sum of the cost fields of the
\* result nodes of its chain, and the sum of the costs of the Responses of
\* the steps that did not raise, in whatever order the steps of a group took
\* their turns.
C38_CostIsSumOfResultNodes ==
    ValidatedRunReturned =>
        /\ result.cost = SumResultNodes(chains[run.session].nodes,
                                        Len(chains[run.session].nodes))
        /\ result.cost = SumReturned(Len(tasks))

\* Steps 1 and 2 of one group both reported a cost, the result of step 2 was
\* recorded before the result of step 1, step 3 raised, and the run reports
\* the two costs.
C38_Witness ==
    /\ ValidatedRunReturned
    /\ Len(tasks) = 3
    /\ GroupOf(1) = GroupOf(2)
    /\ tasks[1].st = "returned" /\ tasks[1].response.cost = MaxCost
    /\ tasks[2].st = "returned" /\ tasks[2].response.cost = MaxCost
    /\ tasks[3].st = "raised"
    /\ \E a \in NodesOf("result", 1), b \in NodesOf("result", 2) : b < a
    /\ result.cost = 2 * MaxCost

\* ------------------------------------------------ the attempts of a request
\* send_request returned for step i.
Sent(i) == tasks[i].st = "returned"

TakesFirstRun(i) == tasks[i].st = "pending" /\ tasks'[i].st # "pending"

\* C40: a step that takes its first run when its server is not in the
\* registry raises at once, while a step whose server is registered records
\* its step node and goes on to its request; a step that raised has no node
\* in the chain and issued no invocation; and when the run has returned it
\* is failed, has no entry in the deliverables and no share in the cost,
\* while every other step, of its group or of a later one, returned, is
\* completed, has its step node and result node and its deliverable.
C40_UnregisteredStepFailsAlone ==
    /\ [][\A i \in 1..Len(tasks) : TakesFirstRun(i) =>
            IF steps[i].server_name \in registry
            THEN /\ tasks'[i].st \in {"awaiting", "returned"}
                 /\ (Cardinality(NodesOf("step", i)) = 1)'
            ELSE /\ tasks'[i].st = "raised"
                 /\ (NodesOfStep(i) = {})']_vars
    /\ []((pc # "idle" /\ run.groups # <<>>) =>
            \A i \in 1..Len(tasks) : tasks[i].st = "raised" =>
                /\ NodesOfStep(i) = {}
                /\ tasks[i].calls = 0
                /\ tasks[i].client = NoClient)
    /\ []((ValidatedRunReturned /\ run.groups # <<>>) =>
            /\ result.cost = SumReturned(Len(tasks))
            /\ \A i \in 1..Len(tasks) :
                IF tasks[i].st = "raised"
                THEN /\ steps[i].status = "failed"
                     /\ steps[i].step_id \notin DOMAIN result.deliverables
                ELSE /\ tasks[i].st = "returned"
                     /\ steps[i].status = "completed"
                     /\ steps[i].step_id \in DOMAIN result.deliverables
                     /\ Cardinality(NodesOf("step", i)) = 1
                     /\ Cardinality(NodesOf("result", i)) = 1)

\* The server of step 2 was unregistered after validation: step 2 raised
\* and left nothing, its sibling step 1 and step 3 of the next group ran and
\* the run reports their costs and their deliverables.
C40_Witness ==
    /\ ValidatedRunReturned
    /\ Len(run.groups) = 2
    /\ run.groups[1] = <<1, 2>>
    /\ steps[2].server_name \notin registry
    /\ steps[1].server_name \in registry /\ steps[3].server_name \in registry
    /\ tasks[2].st = "raised" /\ NodesOfStep(2) = {} /\ tasks[2].calls = 0
    /\ steps[2].status = "failed"
    /\ tasks[1].response.error = "" /\ tasks[3].response.error = ""
    /\ result.cost = tasks[1].response.cost + tasks[3].response.cost
    /\ DOMAIN result.deliverables = {steps[1].step_id, steps[3].step_id}
    /\ NodesOf("result", 1) # {} /\ NodesOf("result", 3) # {}

\* ------------------------------------------------------- a refused import
\* C36 (as claimed): an import_chain that returned false left every tracked
\* chain, the one with the document's session id included, as it was before
\* the call.
C36_RejectedImportChangesNothing ==
    [][(last'.op = "import_chain" /\ ~last'.ok) => chains' = chains]_vars

\* ------------------------------------------------- the head of every chain
\* C37 (as claimed): every tracked chain has a node, and its first node is
\* of type genesis and has no parents.
C37_ChainsStartWithGenesis ==
    \A s \in DOMAIN chains :
        /\ chains[s].nodes # <<>>
        /\ chains[s].nodes[1].node_type = "genesis"
        /\ chains[s].nodes[1].parent_ids = <<>>

\* ------------------------------------------------------ every run returns
\* The run is over: the barrier of its last group was passed, every step is
\* settled and has its final status.
RunEnded ==
    /\ pc = "done"
    /\ run.gi = Len(run.groups)
    /\ \A i \in 1..Len(steps) :
            Settled(tasks, i) /\ steps[i].status \in {"completed", "failed"}

\* C35: a request makes at most max_retries attempts and its waits are the
\* bounded 2**0, 2**1, ...; a run leaves a group only for the next one or
\* for its end, and only when every step of the group is settled; and under
\* the scheduling above a run that is under way ends, past the barrier of
\* its last group, with every step settled and completed or failed.
C35_EveryRunReturns ==
    /\ [](\A i \in 1..Len(tasks) :
            /\ tasks[i].calls <= max_retries
            /\ Len(tasks[i].waits) <= tasks[i].calls
            /\ Len(tasks[i].waits) < max_retries \/ max_retries = 0
            /\ \A k \in 1..Len(tasks[i].waits) : tasks[i].waits[k] = 2 ^ (k - 1))
    /\ [][(pc = "running" /\ (run'.gi # run.gi \/ pc' # "running")) =>
            /\ GatherSettled(run.groups[run.gi], tasks)
            /\ IF run.gi < Len(run.groups)
               THEN run'.gi = run.gi + 1 /\ pc' = "running"
               ELSE run'.gi = run.gi /\ pc' = "done"]_vars
    /\ (pc = "running") ~> RunEnded

\* A run of two groups ended: a request of it had slept between two
\* attempts, another step had raised, and every step has its status.
C35_Witness ==
    /\ RunEnded
    /\ ValidatedRunReturned
    /\ Len(run.groups) = 2
    /\ \E i \in 1..Len(tasks) : tasks[i].waits # <<>> /\ tasks[i].calls = max_retries
    /\ \E i \in 1..Len(tasks) : tasks[i].st = "raised"

====
